---- MODULE Spec2Model ----
(***************************************************************************)
(* Path resolution of the file finder action (src/action/finder): a query  *)
(* is parsed into a Task, and ResolvePath::next pops tasks from a LIFO     *)
(* work-list, resolving each against the filesystem into follow-up tasks   *)
(* and buffered outputs.                                                   *)
(*                                                                         *)
(* A file name is a sequence of one-character strings, a path is a record  *)
(* [abs, comps] (comps a sequence of names), a filesystem is a function    *)
(* from the canonical component sequence of every existing object to its   *)
(* node.                                                                   *)
(***************************************************************************)
EXTENDS Integers, Sequences, FiniteSets, TLC

\* ------------------------------------------------------------------ bounds
\* Symbolic links followed in one path lookup before the OS gives up (ELOOP).
MaxLinkHops == 40

\* ------------------------------------------------------------------- names
A == <<"a">>
B == <<"b">>
C == <<"c">>
D == <<"d">>
F == <<"f">>
L == <<"l">>
X == <<"x">>
DotDot == <<".", ".">>
Dot == <<".">>
Star == <<"*">>

Digits == {"0", "1", "2", "3", "4", "5", "6", "7", "8", "9"}
DigitVal == [c \in Digits |->
    CASE c = "0" -> 0 [] c = "1" -> 1 [] c = "2" -> 2 [] c = "3" -> 3
      [] c = "4" -> 4 [] c = "5" -> 5 [] c = "6" -> 6 [] c = "7" -> 7
      [] c = "8" -> 8 [] c = "9" -> 9]

Last(s) == s[Len(s)]
Front(s) == SubSeq(s, 1, Len(s) - 1)
Range(s) == {s[i] : i \in 1..Len(s)}

\* ------------------------------------------------------------------- paths
RootPath == [abs |-> TRUE, comps |-> <<>>]
\* PathBuf::default(): the empty relative path.
EmptyPath == [abs |-> FALSE, comps |-> <<>>]
AbsPath(comps) == [abs |-> TRUE, comps |-> comps]
RelPath(comps) == [abs |-> FALSE, comps |-> comps]
\* PathBuf::join: an absolute right operand replaces the left one.
Join(p, q) == IF q.abs THEN q ELSE [abs |-> p.abs, comps |-> p.comps \o q.comps]

RECURSIVE NormalizeComps(_, _)
NormalizeComps(comps, acc) ==
    IF comps = <<>> THEN acc
    ELSE IF Head(comps) = Dot THEN NormalizeComps(Tail(comps), acc)
    ELSE IF Head(comps) = DotDot
         THEN NormalizeComps(Tail(comps), IF acc = <<>> THEN acc ELSE Front(acc))
    ELSE NormalizeComps(Tail(comps), Append(acc, Head(comps)))

\* normalize inlining `.` only.
normalize_keep_parent(path) ==
    IF ~path.abs THEN path
    ELSE AbsPath(SelectSeq(path.comps, LAMBDA c : c # Dot))

\* Inlines `.` and `..`; a relative path is returned unchanged.
normalize(path) ==
    IF ~path.abs THEN path ELSE AbsPath(NormalizeComps(path.comps, <<>>))

\* -------------------------------------------------------------- filesystem
DirNode == [kind |-> "dir", target |-> <<>>]
FileNode == [kind |-> "file", target |-> <<>>]
LinkNode(t) == [kind |-> "link", target |-> t]

\* The error value of a failed metadata call.
NoEnt == [kind |-> "noent", id |-> <<>>]

\* Walks comps from the directory cur (a canonical path of a directory),
\* following symbolic links in every position but, when followLast is
\* FALSE, the last one.  Yields the metadata of the object reached.
RECURSIVE Walk(_, _, _, _, _)
Walk(f, cur, comps, followLast, hops) ==
    IF comps = <<>> THEN [kind |-> f[cur].kind, id |-> cur]
    ELSE LET n == Head(comps)
             rest == Tail(comps)
             p == Append(cur, n)
         IN IF f[cur].kind # "dir" THEN NoEnt
            ELSE IF n = Dot THEN Walk(f, cur, rest, followLast, hops)
            ELSE IF n = DotDot
                 THEN Walk(f, IF cur = <<>> THEN cur ELSE Front(cur), rest,
                           followLast, hops)
            ELSE IF p \notin DOMAIN f THEN NoEnt
            ELSE IF f[p].kind = "link" /\ (rest # <<>> \/ followLast)
                 THEN IF hops = 0 THEN NoEnt
                      ELSE Walk(f, <<>>, f[p].target \o rest, followLast,
                                hops - 1)
            ELSE Walk(f, p, rest, followLast, hops)

\* std::fs::metadata / Path::metadata: follows symbolic links.
Metadata(f, path) ==
    IF ~path.abs THEN NoEnt ELSE Walk(f, <<>>, path.comps, TRUE, MaxLinkHops)

\* std::fs::symlink_metadata / DirEntry::metadata: the link itself.
SymlinkMetadata(f, path) ==
    IF ~path.abs THEN NoEnt ELSE Walk(f, <<>>, path.comps, FALSE, MaxLinkHops)

\* Path::exists: a broken link counts as absent.
Exists(f, path) == Metadata(f, path).kind # "noent"

\* Names of the direct children of the directory with canonical path d.
ChildNames(f, d) ==
    {p[Len(p)] : p \in {q \in DOMAIN f : Len(q) = Len(d) + 1
                                          /\ SubSeq(q, 1, Len(d)) = d}}

\* fs::list_dir: fails (here: the empty set) unless path leads to a
\* directory; every entry is the path joined with the child's name, with
\* the child's own (not followed) metadata.
list_dir(f, path) ==
    LET md == Metadata(f, path)
    IN IF md.kind # "dir" THEN {}
       ELSE {[path |-> Join(path, RelPath(<<n>>)),
              metadata |-> SymlinkMetadata(f, Join(path, RelPath(<<n>>)))]
             : n \in ChildNames(f, md.id)}

\* ------------------------------------------------------------- glob patterns
\* Index of the first "]" of s at or after position i, 0 if there is none.
RECURSIVE FindClose(_, _)
FindClose(s, i) ==
    IF i > Len(s) THEN 0 ELSE IF s[i] = "]" THEN i ELSE FindClose(s, i + 1)

\* glob_to_regex: the glob is translated left to right into a sequence of
\* regex tokens, anchored at both ends.
RECURSIVE glob_to_regex(_)
glob_to_regex(s) ==
    IF s = <<>> THEN <<>>
    ELSE LET c == Head(s)
             close == FindClose(s, 3)
         IN IF c = "*" THEN <<[t |-> "star"]>> \o glob_to_regex(Tail(s))
            ELSE IF c = "?" THEN <<[t |-> "any"]>> \o glob_to_regex(Tail(s))
            ELSE IF c = "[" /\ close # 0
                 THEN LET neg == s[2] \in {"!", "^"}
                          body == SubSeq(s, IF neg THEN 3 ELSE 2, close - 1)
                      IN <<[t |-> "class", neg |-> neg, set |-> Range(body)]>>
                         \o glob_to_regex(SubSeq(s, close + 1, Len(s)))
            ELSE <<[t |-> "lit", c |-> c]>> \o glob_to_regex(Tail(s))

\* Regex::is_match of an anchored pattern against a whole name.
RECURSIVE is_match(_, _)
is_match(regex, s) ==
    IF regex = <<>> THEN s = <<>>
    ELSE LET r == Head(regex)
         IN CASE r.t = "star" ->
                   is_match(Tail(regex), s)
                   \/ (s # <<>> /\ is_match(regex, Tail(s)))
              [] r.t = "any" -> s # <<>> /\ is_match(Tail(regex), Tail(s))
              [] r.t = "class" ->
                   s # <<>> /\ ((Head(s) \in r.set) # r.neg)
                   /\ is_match(Tail(regex), Tail(s))
              [] r.t = "lit" ->
                   s # <<>> /\ Head(s) = r.c /\ is_match(Tail(regex), Tail(s))

\* ------------------------------------------------------------ path components
Constant(path) == [kind |-> "Constant", path |-> path]
Glob(regex) == [kind |-> "Glob", regex |-> regex]
RecursiveScan(max_depth) == [kind |-> "RecursiveScan", max_depth |-> max_depth]

DEFAULT_DEPTH == 3
I32Max == 2147483647

\* Index of the first position of s where "**" starts, 0 if there is none.
RECURSIVE FindStars(_, _)
FindStars(s, i) ==
    IF i + 1 > Len(s) THEN 0
    ELSE IF s[i] = "*" /\ s[i + 1] = "*" THEN i ELSE FindStars(s, i + 1)

\* Index of the first position at or after i that holds no digit.
RECURSIVE SkipDigits(_, _)
SkipDigits(s, i) ==
    IF i > Len(s) \/ s[i] \notin Digits THEN i ELSE SkipDigits(s, i + 1)

\* str::parse::<i32> of a digit string; -1 stands for the parse error.
RECURSIVE ParseI32(_, _)
ParseI32(ds, acc) ==
    IF ds = <<>> THEN acc
    ELSE LET d == DigitVal[Head(ds)]
         IN IF acc > (I32Max - d) \div 10 THEN -1
            ELSE ParseI32(Tail(ds), acc * 10 + d)

Ok(v) == [ok |-> TRUE, value |-> v]
None == [ok |-> TRUE, value |-> [kind |-> "None"]]
InvalidRecursiveComponentInPath(s) ==
    [ok |-> FALSE, error |-> "InvalidRecursiveComponentInPath",
     path |-> RelPath(<<s>>)]
MultipleRecursiveComponentsInPath(q) ==
    [ok |-> FALSE, error |-> "MultipleRecursiveComponentsInPath", path |-> q]

\* Index of the first position at or after i that holds a line feed: `.` of
\* the matcher matches every character but the line feed.
RECURSIVE SkipDots(_, _)
SkipDots(s, i) ==
    IF i > Len(s) \/ s[i] = "\n" THEN i ELSE SkipDots(s, i + 1)

\* The matcher \*\*(?P<max_depth>\d*)(?P<remaining>.*) is searched for in s;
\* it is anchored neither at the start nor at the end of s, and the leftmost
\* match is taken.
get_recursive_scan_component(s) ==
    LET i == FindStars(s, 1)
        j == SkipDigits(s, i + 2)
        digits == SubSeq(s, i + 2, j - 1)
        remaining == SubSeq(s, j, SkipDots(s, j) - 1)
        parsed == ParseI32(digits, 0)
    IN IF i = 0 THEN None
       ELSE IF remaining # <<>> THEN InvalidRecursiveComponentInPath(s)
       ELSE IF digits = <<>> THEN Ok(RecursiveScan(DEFAULT_DEPTH))
       ELSE IF parsed = -1 THEN InvalidRecursiveComponentInPath(s)
       ELSE Ok(RecursiveScan(parsed))

\* GLOB_MATCHER \*|\?|\[.+\] found anywhere in s.
GlobMatcherIsMatch(s) ==
    \/ \E i \in 1..Len(s) : s[i] \in {"*", "?"}
    \/ \E i \in 1..Len(s) : \E j \in (i + 2)..Len(s) :
          /\ s[i] = "[" /\ s[j] = "]"
          /\ \A k \in (i + 1)..(j - 1) : s[k] # "\n"

get_glob_component(s) ==
    IF ~GlobMatcherIsMatch(s) THEN None ELSE Ok(Glob(glob_to_regex(s)))

\* A query is the sequence of the texts of the path's components after the
\* root directory; ParentDir (and every component that is not Normal) is a
\* constant.
get_path_component(s) ==
    IF s = DotDot THEN Ok(Constant(RelPath(<<s>>)))
    ELSE LET scan == get_recursive_scan_component(s)
             glob == get_glob_component(s)
         IN IF ~scan.ok THEN scan
            ELSE IF scan.value.kind # "None" THEN scan
            ELSE IF glob.value.kind # "None" THEN glob
            ELSE Ok(Constant(RelPath(<<s>>)))

RECURSIVE FoldInto(_, _)
FoldInto(components, ret) ==
    IF components = <<>> THEN ret
    ELSE LET c == Head(components)
         IN IF ret # <<>> /\ Last(ret).kind = "Constant" /\ c.kind = "Constant"
            THEN FoldInto(Tail(components),
                          Append(Front(ret), Constant(Join(Last(ret).path, c.path))))
            ELSE FoldInto(Tail(components), Append(ret, c))

fold_constant_components(components) == FoldInto(components, <<>>)

Task(path_prefix, current_component, remaining_components) ==
    [path_prefix |-> path_prefix,
     current_component |-> current_component,
     remaining_components |-> remaining_components]

build_task_from_components(components) ==
    LET folded == fold_constant_components(components)
        nonConst == {i \in 1..Len(folded) : folded[i].kind # "Constant"}
        first == CHOOSE i \in nonConst : \A j \in nonConst : i <= j
        consts == IF nonConst = {} THEN 1..Len(folded) ELSE 1..(first - 1)
        \* the loop overwrites path_prefix at every constant it passes
        path_prefix == IF consts = {} THEN EmptyPath
                       ELSE folded[CHOOSE i \in consts : \A j \in consts : j <= i].path
    IN IF nonConst = {}
       THEN Task(EmptyPath, Constant(path_prefix), <<>>)
       ELSE Task(path_prefix, folded[first],
                 SubSeq(folded, first + 1, Len(folded)))

\* Path::components of an absolute path: the root directory, then the texts.
QueryPath(query) == AbsPath(query)

\* build_task with the count of recursive components compared with 2.
build_task_two_allowed(query) ==
    LET parsed == [i \in 1..Len(query) |-> get_path_component(query[i])]
        errors == {i \in 1..Len(query) : ~parsed[i].ok}
        components == <<Constant(RootPath)>>
                      \o [i \in 1..Len(query) |-> parsed[i].value]
        scans == {i \in 1..Len(query) : parsed[i].value.kind = "RecursiveScan"}
    IN IF errors # {}
       THEN parsed[CHOOSE i \in errors : \A j \in errors : i <= j]
       ELSE IF Cardinality(scans) > 2
       THEN MultipleRecursiveComponentsInPath(QueryPath(query))
       ELSE Ok(build_task_from_components(fold_constant_components(components)))

build_task(query) ==
    LET parsed == [i \in 1..Len(query) |-> get_path_component(query[i])]
        errors == {i \in 1..Len(query) : ~parsed[i].ok}
        components == <<Constant(RootPath)>>
                      \o [i \in 1..Len(query) |-> parsed[i].value]
        scans == {i \in 1..Len(query) : parsed[i].value.kind = "RecursiveScan"}
    IN IF errors # {}
       THEN parsed[CHOOSE i \in errors : \A j \in errors : i <= j]
       ELSE IF Cardinality(scans) > 1
       THEN MultipleRecursiveComponentsInPath(QueryPath(query))
       ELSE Ok(build_task_from_components(fold_constant_components(components)))

\* TaskBuilder with add_constant parsing the names of the path it is
\* given as build_task parses the texts of a query.
TaskBuilderBuild_reparsed(components) ==
    LET parsed[i \in 0..Len(components)] ==
            IF i = 0 THEN <<>>
            ELSE parsed[i - 1]
                 \o (IF components[i].kind = "Constant"
                     THEN (IF components[i].path.abs
                           THEN <<Constant(RootPath)>> ELSE <<>>)
                          \o [k \in 1..Len(components[i].path.comps) |->
                                 get_path_component(
                                     components[i].path.comps[k]).value]
                     ELSE <<components[i]>>)
    IN build_task_from_components(parsed[Len(components)])

\* TaskBuilder::new().add_constant(path)[.add_recursive_scan(d)]
\*     .add_components(components).build()
TaskBuilderBuild(components) == build_task_from_components(components)

\* --------------------------------------------------------------- resolution
TaskResults(new_tasks, outputs) == [new_tasks |-> new_tasks, outputs |-> outputs]

\* Every enumeration of the finite set S: the orders in which a directory
\* listing may return its entries.
Orders(S) ==
    {o \in [1..Cardinality(S) -> S] : \A x \in S : \E i \in DOMAIN o : o[i] = x}

\* list_path: the entries of the directory path leads to; nothing when the
\* stat or the listing fails.  The entry built for a path that is not a
\* directory is dropped (the expression statement has no `return`), and
\* list_dir then fails on it.
\* list_path returning the entry it builds for a path that is not a
\* directory.
list_path_entry_of_file(f, path) ==
    IF Metadata(f, path).kind = "noent" THEN {}
    ELSE IF Metadata(f, path).kind # "dir"
         THEN {[path |-> path, metadata |-> Metadata(f, path)]}
    ELSE list_dir(f, path)

list_path(f, path) ==
    IF Metadata(f, path).kind = "noent" THEN {} ELSE list_dir(f, path)

\* The last component of an entry's path matches the regex.
last_component_matches(path, regex) ==
    IF path.comps = <<>> THEN FALSE ELSE is_match(regex, Last(path.comps))

\* Variant: a matching child is emitted even when components remain.
resolve_glob_task_emit_all(glob, path_prefix, remaining_components, listing) ==
    LET matching == SelectSeq(listing,
                              LAMBDA e : last_component_matches(e.path, glob))
    IN TaskResults(
           IF remaining_components = <<>> THEN <<>>
           ELSE [i \in 1..Len(matching) |->
                    TaskBuilderBuild(<<Constant(matching[i].path)>>
                                     \o remaining_components)],
           matching)

\* Variant: children that are symbolic links are not considered.
resolve_glob_task_skip_links(glob, path_prefix, remaining_components, listing) ==
    LET matching == SelectSeq(listing,
                              LAMBDA e : /\ e.metadata.kind # "link"
                                         /\ last_component_matches(e.path, glob))
    IN IF remaining_components = <<>>
       THEN TaskResults(<<>>, matching)
       ELSE TaskResults(
                [i \in 1..Len(matching) |->
                    TaskBuilderBuild(<<Constant(matching[i].path)>>
                                     \o remaining_components)],
                <<>>)

\* listing: the entries of list_path(path_prefix) in the order of iteration.
resolve_glob_task(glob, path_prefix, remaining_components, listing) ==
    LET matching == SelectSeq(listing,
                              LAMBDA e : last_component_matches(e.path, glob))
    IN IF remaining_components = <<>>
       THEN TaskResults(<<>>, matching)
       ELSE TaskResults(
                [i \in 1..Len(matching) |->
                    TaskBuilderBuild(<<Constant(matching[i].path)>>
                                     \o remaining_components)],
                <<>>)

\* Variant: the link is followed whatever follow_links is.
is_dir_always_follow(f, e, follow_links) ==
    e.metadata.kind = "dir" \/ Metadata(f, e.path).kind = "dir"

is_dir(f, e, follow_links) ==
    IF e.metadata.kind = "dir" THEN TRUE
    ELSE IF follow_links THEN Metadata(f, e.path).kind = "dir"
    ELSE FALSE

\* Variant: the recursion continues while max_depth > 0.
RecursiveScanEntryTasks_off_by_one(e, max_depth, remaining_components) ==
    <<TaskBuilderBuild(<<Constant(e.path)>> \o remaining_components)>>
    \o (IF max_depth > 0
        THEN <<TaskBuilderBuild(<<Constant(e.path), RecursiveScan(max_depth - 1)>>
                                \o remaining_components)>>
        ELSE <<>>)

\* Variant: the follow-up recursive task keeps max_depth.
RecursiveScanEntryTasks_no_decrement(e, max_depth, remaining_components) ==
    <<TaskBuilderBuild(<<Constant(e.path)>> \o remaining_components)>>
    \o (IF max_depth > 1
        THEN <<TaskBuilderBuild(<<Constant(e.path), RecursiveScan(max_depth)>>
                                \o remaining_components)>>
        ELSE <<>>)

\* The tasks pushed for one directory entry of a recursive scan.
RecursiveScanEntryTasks(e, max_depth, remaining_components) ==
    <<TaskBuilderBuild(<<Constant(e.path)>> \o remaining_components)>>
    \o (IF max_depth > 1
        THEN <<TaskBuilderBuild(<<Constant(e.path), RecursiveScan(max_depth - 1)>>
                                \o remaining_components)>>
        ELSE <<>>)

RECURSIVE RecursiveScanTasks(_, _, _, _, _)
RecursiveScanTasks(f, listing, max_depth, remaining_components, follow_links) ==
    IF listing = <<>> THEN <<>>
    ELSE (IF is_dir(f, Head(listing), follow_links)
          THEN RecursiveScanEntryTasks(Head(listing), max_depth,
                                       remaining_components)
          ELSE <<>>)
         \o RecursiveScanTasks(f, Tail(listing), max_depth,
                               remaining_components, follow_links)

\* The listing up to and including its first entry that is no directory.
RECURSIVE UntilFirstNonDir(_, _, _)
UntilFirstNonDir(f, listing, follow_links) ==
    IF listing = <<>> THEN <<>>
    ELSE IF ~is_dir(f, Head(listing), follow_links) THEN <<Head(listing)>>
    ELSE <<Head(listing)>> \o UntilFirstNonDir(f, Tail(listing), follow_links)

\* Variant: `break` in place of `continue` after an entry that is no
\* directory.
resolve_recursive_scan_task_break(f, max_depth, path_prefix, remaining_components, follow_links, listing) ==
    LET seen == UntilFirstNonDir(f, listing, follow_links)
    IN TaskResults(
           RecursiveScanTasks(f, seen, max_depth, remaining_components,
                              follow_links),
           IF remaining_components = <<>>
           THEN SelectSeq(seen, LAMBDA e : ~is_dir(f, e, follow_links))
           ELSE <<>>)

\* Variant: a task continuing at path_prefix itself is pushed first (the
\* recursive component also matching zero levels down).
resolve_recursive_scan_task_zero_level(f, max_depth, path_prefix, remaining_components, follow_links, listing) ==
    TaskResults(
        <<TaskBuilderBuild(<<Constant(path_prefix)>> \o remaining_components)>>
        \o RecursiveScanTasks(f, listing, max_depth, remaining_components,
                              follow_links),
        IF remaining_components = <<>>
        THEN SelectSeq(listing, LAMBDA e : ~is_dir(f, e, follow_links))
        ELSE <<>>)

resolve_recursive_scan_task(f, max_depth, path_prefix, remaining_components, follow_links, listing) ==
    TaskResults(
        RecursiveScanTasks(f, listing, max_depth, remaining_components,
                           follow_links),
        IF remaining_components = <<>>
        THEN SelectSeq(listing, LAMBDA e : ~is_dir(f, e, follow_links))
        ELSE <<>>)

\* Variant: the path is examined without following a final symbolic link.
resolve_constant_task_lstat(f, path) ==
    IF SymlinkMetadata(f, path).kind = "noent" THEN TaskResults(<<>>, <<>>)
    ELSE TaskResults(<<>>, <<[path |-> path,
                             metadata |-> SymlinkMetadata(f, path)]>>)

resolve_constant_task(f, path) ==
    IF ~Exists(f, path) THEN TaskResults(<<>>, <<>>)
    ELSE TaskResults(<<>>, <<[path |-> path, metadata |-> Metadata(f, path)]>>)

normalize_path(e) == [path |-> normalize(e.path), metadata |-> e.metadata]

\* Routes resolving a task to one of the three functions; listing is the
\* order in which list_path yields the entries of the task's path_prefix.
resolve_task(f, task, follow_links, listing) ==
    CASE task.current_component.kind = "Constant" ->
             resolve_constant_task(f, task.current_component.path)
      [] task.current_component.kind = "Glob" ->
             resolve_glob_task(task.current_component.regex, task.path_prefix,
                               task.remaining_components, listing)
      [] task.current_component.kind = "RecursiveScan" ->
             resolve_recursive_scan_task(f, task.current_component.max_depth,
                                         task.path_prefix,
                                         task.remaining_components,
                                         follow_links, listing)

\* One fixed order of iteration for every listing.
SortedListing(S) == CHOOSE o \in Orders(S) : TRUE

\* The paths collected from the iterator when every listing is iterated in
\* its fixed order: the loop of next() run until the task stack is empty.
RECURSIVE CollectSorted(_, _, _, _)
CollectSorted(f, follow_links, stack, acc) ==
    IF stack = <<>> THEN acc
    ELSE LET task == Last(stack)
             listing == IF task.current_component.kind = "Constant" THEN <<>>
                        ELSE SortedListing(list_path(f, task.path_prefix))
             r == resolve_task(f, task, follow_links, listing)
         IN CollectSorted(f, follow_links, Front(stack) \o r.new_tasks,
                          acc \cup {normalize(r.outputs[i].path)
                                    : i \in 1..Len(r.outputs)})

\* resolve_path(query, follow_links).collect(), as a set of paths.
ResolvedPaths(f, q, follow) ==
    IF build_task(q).ok
    THEN CollectSorted(f, follow, <<build_task(q).value>>, {})
    ELSE {}

\* ------------------------------------------------- filesystems and queries
SS == <<"*", "*">>
SS0 == <<"*", "*", "0">>
SS1 == <<"*", "*", "1">>
SS2 == <<"*", "*", "2">>

\* Only the directory chain /a/b/c/d.
FsChain ==
    (<<>> :> DirNode) @@ (<<A>> :> DirNode) @@ (<<A, B>> :> DirNode)
    @@ (<<A, B, C>> :> DirNode) @@ (<<A, B, C, D>> :> DirNode)

\* The directory /a with the single file /a/f.
FsOneFile ==
    (<<>> :> DirNode) @@ (<<A>> :> DirNode) @@ (<<A, F>> :> FileNode)

\* /a/f and the symbolic link /b/l to /a.
FsLink ==
    (<<>> :> DirNode) @@ (<<A>> :> DirNode) @@ (<<A, F>> :> FileNode)
    @@ (<<B>> :> DirNode) @@ (<<B, L>> :> LinkNode(<<A>>))

\* /a holds a file, a link back to /a (a cycle) and a broken link.
FsCycle ==
    (<<>> :> DirNode) @@ (<<A>> :> DirNode) @@ (<<A, F>> :> FileNode)
    @@ (<<A, L>> :> LinkNode(<<A>>)) @@ (<<A, X>> :> LinkNode(<<D>>))

\* Directories with several children.
FsWide ==
    (<<>> :> DirNode) @@ (<<A>> :> DirNode) @@ (<<A, B>> :> DirNode)
    @@ (<<A, C>> :> DirNode) @@ (<<A, F>> :> FileNode)
    @@ (<<A, B, C>> :> DirNode) @@ (<<A, B, F>> :> FileNode)
    @@ (<<A, C, F>> :> FileNode) @@ (<<C>> :> FileNode)

FileSystems == {FsChain, FsOneFile, FsLink, FsCycle, FsWide}

ConstantQueries ==
    {<<>>, <<A>>, <<A, F>>, <<X>>, <<B, L>>, <<B, L, F>>, <<A, L>>, <<A, X>>,
     <<A, B, DotDot, F>>, <<A, B, C>>}
GlobQueries ==
    {<<Star>>, <<A, Star>>, <<Star, Star>>, <<Star, F>>, <<B, Star, F>>, <<A, Star, C>>,
     <<A, <<"[", "!", "b", "]">>>>, <<A, <<"?">>, Star>>, <<Star, DotDot, A>>}
RecursiveQueries ==
    {<<SS>>, <<A, SS>>, <<B, SS>>, <<A, SS0>>, <<A, SS1>>, <<A, SS2>>,
     <<A, SS1, C>>, <<A, SS2, C>>, <<A, SS, C>>,
     <<SS1, C>>, <<SS2, C>>, <<SS, C>>,
     <<A, SS, F>>, <<A, SS, B>>, <<B, SS, F>>, <<SS, Star>>, <<Star, SS1>>,
     <<SS, DotDot, B>>}
MalformedQueries == {<<SS, A, SS>>, <<A, <<"*", "*", "5", "a">>>>}

Queries == ConstantQueries \cup GlobQueries \cup RecursiveQueries
           \cup MalformedQueries

\* ------------------------------------------------------------ state machine
VARIABLES
    fs,            \* the filesystem snapshot the query is resolved against
    query,         \* the texts of the components of the queried path
    follow_links,  \* ResolvePath::follow_links
    tasks,         \* ResolvePath::tasks, a stack: the last element is popped
    outputs,       \* ResolvePath::outputs, a stack
    emitted,       \* the entries next() has returned so far, in order
    listed,        \* the list_path calls made so far
    result,        \* "call": resolve_path is about to be called;
                   \* "iter": resolve_path returned the iterator;
                   \* "none": next() has returned None; "err": build_task failed
    built,         \* the value build_task returned to resolve_path
    req,           \* the Request handed to handle
    paths,         \* handle: the absolute paths collected from the queries
    path_idx,      \* handle: the index in paths the flat_map has reached
    handled,       \* handle: "idle", "start", "run", "ok", "err", "panic"
    replies,       \* the responses passed to Session::reply, as protos
    sent           \* the chunks passed to Session::send(TRANSFER_STORE, ..)

\* The state of handle and of its session.
hvars == <<req, paths, path_idx, handled, replies, sent>>

vars == <<fs, query, follow_links, tasks, outputs, emitted, listed, result,
          built, hvars>>

\* No request is being handled: the path is resolved on its own.
NoRequest == [path_queries |-> <<>>]
HandleIdle ==
    /\ req = NoRequest
    /\ paths = <<>>
    /\ path_idx = 0
    /\ handled = "idle"
    /\ replies = <<>>
    /\ sent = <<>>

\* resolve_path: build the first task; nothing is resolved yet.
Init ==
    /\ fs \in FileSystems
    /\ query \in Queries
    /\ follow_links \in BOOLEAN
    /\ tasks = IF build_task(query).ok THEN <<build_task(query).value>> ELSE <<>>
    /\ outputs = <<>>
    /\ emitted = <<>>
    /\ listed = {}
    /\ result = IF build_task(query).ok THEN "iter" ELSE "err"
    /\ built = build_task(query)
    /\ HandleIdle

\* next(): `if let Some(v) = self.outputs.pop() { return Some(v) }`
NextReturn ==
    /\ result = "iter"
    /\ outputs # <<>>
    /\ emitted' = Append(emitted, Last(outputs))
    /\ outputs' = Front(outputs)
    /\ UNCHANGED <<fs, query, follow_links, tasks, listed, result, built, hvars>>

\* One turn of the loop of next() on a popped task: the results of
\* resolve_task are appended to the task stack and the output buffer.
Push(task_results) ==
    /\ tasks' = Front(tasks) \o task_results.new_tasks
    /\ outputs' = outputs \o [i \in 1..Len(task_results.outputs) |->
                                normalize_path(task_results.outputs[i])]

NextResolveConstant ==
    /\ result = "iter"
    /\ outputs = <<>>
    /\ tasks # <<>>
    /\ Last(tasks).current_component.kind = "Constant"
    /\ Push(resolve_task(fs, Last(tasks), follow_links, <<>>))
    /\ UNCHANGED <<fs, query, follow_links, emitted, listed, result, built, hvars>>

\* NextResolveGlob without the test of the output buffer.
NextResolveGlob_eager ==
    /\ result = "iter"
    /\ tasks # <<>>
    /\ Last(tasks).current_component.kind = "Glob"
    /\ LET task == Last(tasks)
       IN /\ \E listing \in Orders(list_path(fs, task.path_prefix)) :
                Push(resolve_task(fs, task, follow_links, listing))
          /\ listed' = listed \cup {[path |-> task.path_prefix,
                                      by |-> task.current_component]}
    /\ UNCHANGED <<fs, query, follow_links, emitted, result, built, hvars>>

NextResolveGlob ==
    /\ result = "iter"
    /\ outputs = <<>>
    /\ tasks # <<>>
    /\ Last(tasks).current_component.kind = "Glob"
    /\ LET task == Last(tasks)
       IN /\ \E listing \in Orders(list_path(fs, task.path_prefix)) :
                Push(resolve_task(fs, task, follow_links, listing))
          /\ listed' = listed \cup {[path |-> task.path_prefix,
                                      by |-> task.current_component]}
    /\ UNCHANGED <<fs, query, follow_links, emitted, result, built, hvars>>

NextResolveRecursiveScan ==
    /\ result = "iter"
    /\ outputs = <<>>
    /\ tasks # <<>>
    /\ Last(tasks).current_component.kind = "RecursiveScan"
    /\ LET task == Last(tasks)
       IN /\ \E listing \in Orders(list_path(fs, task.path_prefix)) :
                Push(resolve_task(fs, task, follow_links, listing))
          /\ listed' = listed \cup {[path |-> task.path_prefix,
                                      by |-> task.current_component]}
    /\ UNCHANGED <<fs, query, follow_links, emitted, result, built, hvars>>

\* next(): `let task = self.tasks.pop()?` on an empty stack returns None.
NextNone ==
    /\ result = "iter"
    /\ outputs = <<>>
    /\ tasks = <<>>
    /\ result' = "none"
    /\ UNCHANGED <<fs, query, follow_links, tasks, outputs, emitted, listed,
                   built, hvars>>

Next ==
    \/ NextReturn
    \/ NextResolveConstant
    \/ NextResolveGlob
    \/ NextResolveRecursiveScan
    \/ NextNone

Spec == Init /\ [][Next]_vars

\* The consumer keeps pulling: every enabled turn of next() is taken.
FairSpec == Spec /\ WF_vars(Next)

TypeOK ==
    /\ result \in {"call", "iter", "none", "err"}
    /\ handled \in {"idle", "start", "run", "ok", "err", "panic"}
    /\ \A i \in 1..Len(tasks) : tasks[i].path_prefix.abs \in BOOLEAN
    /\ \A i \in 1..Len(outputs) : outputs[i].path.abs
    /\ \A i \in 1..Len(emitted) : emitted[i].path.abs

\* ------------------------------------------------------- shapes of a query
Done == result = "none"
EmittedPaths == {emitted[i].path : i \in 1..Len(emitted)}

ComponentKind(s) ==
    IF get_path_component(s).ok THEN get_path_component(s).value.kind
    ELSE "Error"

\* A constant component that is a plain name (not `..`).
IsName(s) == ComponentKind(s) = "Constant" /\ s # DotDot

IsConstantQuery(q) == \A i \in 1..Len(q) : ComponentKind(q[i]) = "Constant"

\* A well-formed query with a recursive component, at index ScanIndex(q).
HasGlob(q) ==
    /\ build_task(q).ok
    /\ \E i \in 1..Len(q) : ComponentKind(q[i]) = "Glob"
HasScan(q) ==
    /\ build_task(q).ok
    /\ \E i \in 1..Len(q) : ComponentKind(q[i]) = "RecursiveScan"
ScanIndex(q) == CHOOSE i \in 1..Len(q) : ComponentKind(q[i]) = "RecursiveScan"
ScanPrefix(q) == SubSeq(q, 1, ScanIndex(q) - 1)
ScanRest(q) == SubSeq(q, ScanIndex(q) + 1, Len(q))
ScanDepth(q) == get_path_component(q[ScanIndex(q)]).value.max_depth

\* P/**N/rest with P made of plain names only.
NamedPrefixScan(q) ==
    HasScan(q) /\ \A i \in 1..(ScanIndex(q) - 1) : IsName(q[i])

\* -------------------------------------------------------------------- C1
\* C1 as stated: for a query made only of constant segments, resolution
\* yields exactly one entry if the path exists (links followed) and none
\* otherwise; the entry's path is the queried path and its metadata is that
\* of a stat of the path.
C1_QueriedPathEmitted ==
    (Done /\ IsConstantQuery(query)) =>
        IF Exists(fs, QueryPath(query))
        THEN emitted = <<[path |-> QueryPath(query),
                          metadata |-> Metadata(fs, QueryPath(query))]>>
        ELSE emitted = <<>>

\* C1 (amended): for a query made only of constant segments, resolution
\* yields exactly one entry if the queried path exists (links followed, a
\* broken link is absent) and none otherwise; the entry's path is the
\* queried path with its `..` components collapsed by normalize, and its
\* metadata is that of a stat of the queried path.
C1_ConstantQuery ==
    (Done /\ IsConstantQuery(query)) =>
        IF Exists(fs, QueryPath(query))
        THEN emitted = <<[path |-> normalize(QueryPath(query)),
                          metadata |-> Metadata(fs, QueryPath(query))]>>
        ELSE emitted = <<>>

C1_Witness ==
    /\ Done
    /\ IsConstantQuery(query)
    /\ Len(emitted) = 1
    /\ DotDot \in Range(query)
    /\ emitted[1].path # QueryPath(query)

\* -------------------------------------------------------------------- C2
\* The entries and follow-up tasks a glob step must produce from the direct
\* children of the popped task's path_prefix.
GlobStepOk ==
    LET task == Last(tasks)
        children == list_path(fs, task.path_prefix)
        hits == {e \in children :
                    is_match(task.current_component.regex, Last(e.path.comps))}
        new_tasks == SubSeq(tasks', Len(tasks), Len(tasks'))
    IN /\ \A e \in children : e.path.comps = Append(task.path_prefix.comps,
                                                   Last(e.path.comps))
       /\ IF task.remaining_components = <<>>
          THEN /\ new_tasks = <<>>
               /\ Range(outputs') = {normalize_path(e) : e \in hits}
          ELSE /\ outputs' = <<>>
               /\ Len(new_tasks) = Cardinality(hits)
               /\ Range(new_tasks) =
                    {build_task_from_components(
                         <<Constant(e.path)>> \o task.remaining_components)
                     : e \in hits}

IsGlobStep ==
    /\ result = "iter" /\ outputs = <<>> /\ tasks # <<>>
    /\ Last(tasks).current_component.kind = "Glob"

\* C2 as stated: a glob step emits the matching direct children only when
\* no components remain and otherwise pushes one task per matching child;
\* hence for a k-segment query without recursive component every emitted
\* entry has exactly k segments.
C2_ExactlyKSegments ==
    /\ [][IsGlobStep => GlobStepOk]_vars
    /\ []((HasGlob(query) /\ ~HasScan(query)) =>
            \A i \in 1..Len(emitted) : Len(emitted[i].path.comps) = Len(query))

\* C2 (amended): a glob step emits the matching direct children only when
\* no components remain and otherwise pushes one task per matching child;
\* hence for a k-segment query without recursive component and without `..`
\* segment every emitted entry has exactly k segments.
C2_GlobStep ==
    /\ [][IsGlobStep => GlobStepOk]_vars
    /\ []((HasGlob(query) /\ ~HasScan(query) /\ DotDot \notin Range(query)) =>
            \A i \in 1..Len(emitted) : Len(emitted[i].path.comps) = Len(query))

C2_Witness ==
    /\ Done
    /\ query = <<Star, Star>>
    /\ fs = FsChain
    /\ EmittedPaths = {AbsPath(<<A, B>>)}

\* -------------------------------------------------------------------- C3
\* C3: for a query P/**/s the entry P/s is emitted whenever P/s exists (the
\* recursive component also matches zero levels down).
C3_ZeroLevelMatch ==
    (/\ Done
     /\ NamedPrefixScan(query)
     /\ ScanRest(query) # <<>>
     /\ \A i \in 1..Len(ScanRest(query)) : IsName(ScanRest(query)[i])
     /\ Exists(fs, AbsPath(ScanPrefix(query) \o ScanRest(query))))
    => AbsPath(ScanPrefix(query) \o ScanRest(query)) \in EmittedPaths

\* -------------------------------------------------------------------- C4
ChainABC == AbsPath(<<A, B, C>>)

\* C4 as stated: on the chain a/b/c/d, a/**1/c returns nothing while a/**2/c
\* and a/**/c return exactly a/b/c.
C4_DepthOneFromA ==
    (Done /\ fs = FsChain) =>
        /\ query = <<A, SS1, C>> => emitted = <<>>
        /\ query \in {<<A, SS2, C>>, <<A, SS, C>>} =>
              Len(emitted) = 1 /\ emitted[1].path = ChainABC

\* C4 (amended): on the chain a/b/c/d under the root R, the query R/**1/c
\* (recursive component rooted at the parent of a) returns nothing while
\* R/**2/c and R/**/c return exactly a/b/c; rooted at a, the queries
\* a/**1/c, a/**2/c and a/**/c each return exactly a/b/c.
C4_DepthBoundOnChain ==
    (Done /\ fs = FsChain) =>
        /\ query = <<SS1, C>> => emitted = <<>>
        /\ query \in {<<SS2, C>>, <<SS, C>>,
                      <<A, SS1, C>>, <<A, SS2, C>>, <<A, SS, C>>} =>
              Len(emitted) = 1 /\ emitted[1].path = ChainABC

C4_Witness ==
    /\ Done
    /\ fs = FsChain
    /\ query = <<A, SS1, C>>
    /\ Len(emitted) = 1
    /\ emitted[1].path = ChainABC

\* -------------------------------------------------------------------- C5
\* C5: for a query P/**N/rest the recursive component lists no directory
\* more than N-1 levels below P, and with an empty rest no emitted entry
\* lies more than N levels below P, for every N the parser accepts.
C5_DepthBound ==
    NamedPrefixScan(query) =>
        /\ \A l \in listed :
              l.by.kind = "RecursiveScan" =>
                 Len(l.path.comps) - Len(ScanPrefix(query))
                    <= ScanDepth(query) - 1
        /\ ScanRest(query) = <<>> =>
              \A i \in 1..Len(emitted) :
                 Len(emitted[i].path.comps) - Len(ScanPrefix(query))
                    <= ScanDepth(query)

\* -------------------------------------------------------------------- C6
\* Canonical paths of the objects at most n levels below the directory p.
Below(f, p, n) ==
    {q \in DOMAIN f : /\ Len(q) > Len(p)
                      /\ Len(q) <= Len(p) + n
                      /\ SubSeq(q, 1, Len(p)) = p}

HasLink(f) == \E q \in DOMAIN f : f[q].kind = "link"

NoLinkBelow(f, n, path) ==
    \A k \in (n + 1)..Len(path.comps) :
        SymlinkMetadata(f, AbsPath(SubSeq(path.comps, 1, k))).kind # "link"

\* The path a task is rooted at.
TaskRoot(t) ==
    IF t.current_component.kind = "Constant" THEN t.current_component.path
    ELSE t.path_prefix

IsPrefixOf(p, q) ==
    Len(p.comps) <= Len(q.comps) /\ SubSeq(q.comps, 1, Len(p.comps)) = p.comps

\* C7: in a recursive descent P/**N without follow_links a symbolic link to
\* a directory is never listed and no task is rooted at or below it, but the
\* link is emitted when no components remain; with follow_links the link and
\* (for N > 1) the entries beneath it are emitted.
C7_LinksInRecursiveScan ==
    NamedPrefixScan(query) =>
        LET n == Len(ScanPrefix(query))
            links == {r \in [entry : UNION {list_path(fs, l.path) : l \in listed},
                             listing : listed] :
                        /\ r.listing.by.kind = "RecursiveScan"
                        /\ r.entry \in list_path(fs, r.listing.path)
                        /\ r.entry.metadata.kind = "link"
                        /\ Metadata(fs, r.entry.path).kind = "dir"}
        IN /\ ~follow_links =>
                /\ \A l \in listed :
                      l.by.kind = "RecursiveScan" => NoLinkBelow(fs, n, l.path)
                /\ ScanRest(query) = <<>> =>
                      \A i \in 1..Len(tasks) :
                         NoLinkBelow(fs, n, TaskRoot(tasks[i]))
           /\ (Done /\ ScanRest(query) = <<>>) =>
                \A r \in links :
                   /\ r.entry.path \in EmittedPaths
                   /\ ~follow_links =>
                         \A q \in EmittedPaths :
                            IsPrefixOf(r.entry.path, q) => q = r.entry.path
                   /\ (follow_links /\ r.listing.by.max_depth > 1) =>
                         \A c \in list_path(fs, r.entry.path) :
                            c.path \in EmittedPaths

C7_Witness ==
    /\ Done
    /\ ~follow_links
    /\ fs = FsLink
    /\ query = <<B, SS>>
    /\ [path |-> AbsPath(<<B>>), by |-> RecursiveScan(DEFAULT_DEPTH)] \in listed
    /\ EmittedPaths = {AbsPath(<<B, L>>)}

\* -------------------------------------------------------------------- C8
\* Some component of the path is a symbolic link.
ThroughLink(f, path) == ~NoLinkBelow(f, 0, path)

\* C8: constant and glob components follow symbolic links whatever
\* follow_links is: a constant query through or ending at a link to a
\* directory returns the queried path (not the target's) when it exists, and
\* a glob query P/*/name returns <link>/name for every link matched by `*`
\* whose target holds name.
C8_ConstantAndGlobFollowLinks ==
    Done =>
        /\ (/\ IsConstantQuery(query)
            /\ DotDot \notin Range(query)
            /\ ThroughLink(fs, QueryPath(query))
            /\ Exists(fs, QueryPath(query))) =>
              /\ Len(emitted) = 1
              /\ emitted[1].path = QueryPath(query)
              /\ emitted[1].metadata.kind # "link"
        /\ (/\ Len(query) >= 2
            /\ ComponentKind(query[Len(query) - 1]) = "Glob"
            /\ \A i \in 1..Len(query) :
                  i # Len(query) - 1 => IsName(query[i])) =>
              \A e \in list_path(fs, AbsPath(SubSeq(query, 1, Len(query) - 2))) :
                 (/\ e.metadata.kind = "link"
                  /\ last_component_matches(
                         e.path,
                         get_path_component(query[Len(query) - 1]).value.regex)
                  /\ Exists(fs, Join(e.path, RelPath(<<Last(query)>>)))) =>
                    Join(e.path, RelPath(<<Last(query)>>)) \in EmittedPaths

C8_Witness ==
    /\ Done
    /\ ~follow_links
    /\ fs = FsLink
    /\ query = <<B, Star, F>>
    /\ EmittedPaths = {AbsPath(<<B, L, F>>)}

\* -------------------------------------------------------------------- C9
TaskComponents(t) == <<t.current_component>> \o t.remaining_components

\* Number of components of the task that are still to be resolved.
Unresolved(t) ==
    Cardinality({i \in 1..Len(TaskComponents(t)) :
                    TaskComponents(t)[i].kind # "Constant"})

\* max_depth of the recursive component of the task, 0 if it has none.
DepthLeft(t) ==
    LET scans == {i \in 1..Len(TaskComponents(t)) :
                     TaskComponents(t)[i].kind = "RecursiveScan"}
    IN IF scans = {} THEN 0
       ELSE TaskComponents(t)[CHOOSE i \in scans : TRUE].max_depth

\* Every task pushed by this step is smaller than the task it popped.
PushedTasksDecrease ==
    (tasks # <<>> /\ tasks' # tasks) =>
        \A i \in Len(tasks)..Len(tasks') :
            \/ Unresolved(tasks'[i]) < Unresolved(Last(tasks))
            \/ /\ Unresolved(tasks'[i]) = Unresolved(Last(tasks))
               /\ DepthLeft(tasks'[i]) < DepthLeft(Last(tasks))
               /\ DepthLeft(tasks'[i]) >= 0

\* C9: for every filesystem (symlink cycles with follow_links included) and
\* every parsed query, repeated next() eventually returns None with the task
\* stack and the output buffer empty; every pushed task has fewer unresolved
\* components or a smaller max_depth than the task that produced it.
C9_Terminates ==
    /\ <>(result # "iter")
    /\ [](Done => tasks = <<>> /\ outputs = <<>>)
    /\ [][PushedTasksDecrease]_vars

C9_Witness ==
    /\ Done
    /\ follow_links
    /\ fs = FsCycle
    /\ query = <<A, SS>>
    /\ AbsPath(<<A, L, L, L>>) \in EmittedPaths
    /\ tasks = <<>>
    /\ outputs = <<>>

\* ------------------------------------------------------------------- C10
\* C10: for a fixed filesystem, query and follow_links, the set of paths
\* emitted by a complete resolution is the same whatever order the
\* directory listings return their entries in.
C10_OrderIndependent ==
    Done => EmittedPaths = ResolvedPaths(fs, query, follow_links)

\* A complete resolution that iterated a listing of three entries and
\* emitted them in an order other than the fixed one.
C10_Witness ==
    /\ Done
    /\ fs = FsWide
    /\ query = <<A, Star>>
    /\ Len(emitted) = 3
    /\ LET sorted == SortedListing(list_path(fs, AbsPath(<<A>>)))
       IN <<emitted[1].path, emitted[2].path, emitted[3].path>>
          # <<sorted[3].path, sorted[2].path, sorted[1].path>>

\* ----------------------------------------------------- query strings
\* A query string is a sequence of one-character strings.
\* The pieces of s between the occurrences of sep (s.split(sep)).
RECURSIVE SplitFrom(_, _, _, _)
SplitFrom(s, sep, i, piece) ==
    IF i > Len(s) THEN <<piece>>
    ELSE IF s[i] = sep THEN <<piece>> \o SplitFrom(s, sep, i + 1, <<>>)
    ELSE SplitFrom(s, sep, i + 1, Append(piece, s[i]))

Split(s, sep) == SplitFrom(s, sep, 1, <<>>)

\* Index of the first c of s at or after position i, 0 if there is none.
RECURSIVE IndexFrom(_, _, _)
IndexFrom(s, c, i) ==
    IF i > Len(s) THEN 0 ELSE IF s[i] = c THEN i ELSE IndexFrom(s, c, i + 1)

\* The group that starts at the brace at position i: the position of its
\* closing brace, 0 when the text from i is no group (a nested brace, no
\* closing brace, or an empty alternative).
GroupEnd(s, i) ==
    LET j == IndexFrom(s, "}", i + 1)
        inner == SubSeq(s, i + 1, j - 1)
    IN IF j = 0 THEN 0
       ELSE IF \E k \in 1..Len(inner) : inner[k] = "{" THEN 0
       ELSE IF \E k \in 1..Len(Split(inner, ",")) : Split(inner, ",")[k] = <<>>
            THEN 0
       ELSE j

\* expand_groups: every brace group is replaced by each of its alternatives
\* in turn (the cartesian product over the groups); a malformed group is
\* left as it is.
RECURSIVE ExpandFrom(_, _, _)
ExpandFrom(s, i, prefix) ==
    IF i > Len(s) THEN <<prefix>>
    ELSE IF s[i] = "{" /\ GroupEnd(s, i) # 0
         THEN LET j == GroupEnd(s, i)
                  alts == Split(SubSeq(s, i + 1, j - 1), ",")
                  upto[k \in 0..Len(alts)] ==
                      IF k = 0 THEN <<>>
                      ELSE upto[k - 1]
                           \o ExpandFrom(s, j + 1, prefix \o alts[k])
              IN upto[Len(alts)]
    ELSE ExpandFrom(s, i + 1, Append(prefix, s[i]))

\* expand_groups yielding the first alternative only.
expand_groups_first(s) == <<ExpandFrom(s, 1, <<>>)[1]>>

expand_groups(s) == ExpandFrom(s, 1, <<>>)

\* Path::is_absolute of PathBuf::from(s).
is_absolute(s) == s # <<>> /\ s[1] = "/"

\* Path::components of PathBuf::from(s), without the root directory: the
\* non-empty pieces between the separators; `.` is dropped.
components(s) ==
    SelectSeq(Split(s, "/"), LAMBDA piece : piece # <<>> /\ piece # Dot)

\* into_absoute_path without the test of is_absolute.
into_absoute_path_unchecked(s) ==
    IF is_absolute(s) THEN Ok(AbsPath(components(s)))
    ELSE Ok(RelPath(components(s)))

\* into_absoute_path: the path of the string, or the error for a string
\* that is not absolute.
into_absoute_path(s) ==
    IF ~is_absolute(s)
    THEN [ok |-> FALSE, error |-> "UnsupportedActonParametersError",
          path |-> RelPath(components(s))]
    ELSE Ok(AbsPath(components(s)))

\* The string of the absolute path with the segments q.
RECURSIVE Slashed(_)
Slashed(q) ==
    IF q = <<>> THEN <<>> ELSE <<"/">> \o Head(q) \o Slashed(Tail(q))

\* ------------------------------------------------------ terminal actions
Min(a, b) == IF a < b THEN a ELSE b

Some(v) == [some |-> TRUE, v |-> v]
NoneOption == [some |-> FALSE]

\* The bytes of every regular file, and the size the metadata of a
\* directory reports.
FileBytes == <<1, 2, 3>>
DirLen == 4

\* The content of the regular file with canonical path id: the bytes the
\* object holds, FileBytes when none are given.
Content(f, id) ==
    IF "bytes" \in DOMAIN f[id] THEN f[id].bytes ELSE FileBytes

\* Metadata::len of a metadata snapshot: the size of a file, of a directory,
\* or of the text of a link's target.
MetadataLen(f, md) ==
    CASE md.kind = "file" -> Len(Content(f, md.id))
      [] md.kind = "dir" -> DirLen
      [] md.kind = "link" -> Len(Slashed(f[md.id].target))
      [] OTHER -> 0

\* The first n elements of s (Read::take).
Take(s, n) == SubSeq(s, 1, Min(Len(s), n))

\* File::open(path), a seek to `start` and the reads of at most `limit`
\* bytes that follow, with a read error injected after `fault` bytes were
\* read: opening follows links and fails on a missing object; reading a
\* directory fails at once.  Yields the bytes read before the end of the
\* data or the error.
NoFault == 1000
ReadFrom(f, path, start, limit, fault) ==
    LET target == Metadata(f, path)
        content == IF target.kind = "file" THEN Content(f, target.id)
                   ELSE <<>>
        data == Take(SubSeq(content, start + 1, Len(content)), limit)
        at == IF target.kind = "dir" THEN 0 ELSE fault
    IN [opened |-> target.kind # "noent",
        failed |-> target.kind = "dir" \/ at < Len(data),
        bytes |-> Take(data, at)]

FileRead(f, path, limit, fault) == ReadFrom(f, path, 0, limit, fault)

\* stat of the stat action: the metadata of the entry's path, of the link's
\* target when follow_symlink is set; fails when there is none.
stat(f, request) ==
    LET md == IF request.follow_symlink THEN Metadata(f, request.path)
              ELSE SymlinkMetadata(f, request.path)
    IN IF md.kind = "noent" THEN [ok |-> FALSE, error |-> "stat"]
       ELSE Ok([path |-> request.path, metadata |-> md])

perform_stat_action(f, e, config) ==
    stat(f, [path |-> e.path, follow_symlink |-> config.follow_symlink])

\* A digest is modelled by the bytes it was computed over.
HashEntry(bytes) == [digest |-> bytes, num_bytes |-> Len(bytes)]

\* hash without the take(max_size).
hash_whole_file(f, entry, config, fault) ==
    LET len == MetadataLen(f, entry.metadata)
        io == FileRead(f, entry.path, NoFault, fault)
    IN IF config.oversized_file_policy = "Skip" /\ len > config.max_size
       THEN NoneOption
       ELSE IF ~io.opened THEN NoneOption
       ELSE Some(HashEntry(io.bytes))

\* hash: nothing for an oversized file under the Skip policy, when the file
\* cannot be opened, and when fewer bytes than expected were read without an
\* error; a read error is logged and the digest of the bytes read so far is
\* returned.
hash(f, entry, config, fault) ==
    LET len == MetadataLen(f, entry.metadata)
        io == FileRead(f, entry.path, config.max_size, fault)
        expected_bytes == Min(len, config.max_size)
    IN IF config.oversized_file_policy = "Skip" /\ len > config.max_size
       THEN NoneOption
       ELSE IF ~io.opened THEN NoneOption
       ELSE IF ~io.failed /\ Len(io.bytes) # expected_bytes THEN NoneOption
       ELSE Some(HashEntry(io.bytes))

\* download::Result
Skip == [kind |-> "Skip"]
HashRequest(config) == [kind |-> "HashRequest", config |-> config]
DownloadData(chunks) == [kind |-> "DownloadData", chunks |-> chunks]

\* Chunks::next without the last, shorter chunk.
RECURSIVE ChunkItems_drop_tail(_, _, _)
ChunkItems_drop_tail(bytes, chunk_size, failed) ==
    IF chunk_size >= 1 /\ Len(bytes) >= chunk_size
    THEN <<Ok(Take(bytes, chunk_size))>>
         \o ChunkItems_drop_tail(SubSeq(bytes, chunk_size + 1, Len(bytes)),
                                 chunk_size, failed)
    ELSE IF failed THEN <<[ok |-> FALSE, error |-> "read"]>>
    ELSE <<>>

\* Chunks::next, called until it returns None or an error: the successive
\* chunks of chunk_size bytes (a last shorter one when bytes are left), cut
\* off by the error item when a read fails; the bytes gathered for the chunk
\* the error interrupts are dropped.
RECURSIVE ChunkItems(_, _, _)
ChunkItems(bytes, chunk_size, failed) ==
    IF chunk_size >= 1 /\ Len(bytes) >= chunk_size
    THEN <<Ok(Take(bytes, chunk_size))>>
         \o ChunkItems(SubSeq(bytes, chunk_size + 1, Len(bytes)), chunk_size,
                       failed)
    ELSE IF failed THEN <<[ok |-> FALSE, error |-> "read"]>>
    ELSE IF bytes # <<>> THEN <<Ok(bytes)>>
    ELSE <<>>

\* download deciding with >= instead of >.
download_non_strict(f, entry, config, fault) ==
    LET len == MetadataLen(f, entry.metadata)
        io == FileRead(f, entry.path, config.max_size, fault)
    IN IF len >= config.max_size /\ config.oversized_file_policy = "Skip"
       THEN Skip
       ELSE IF len >= config.max_size
               /\ config.oversized_file_policy = "HashTruncated"
       THEN HashRequest([max_size |-> config.max_size,
                         oversized_file_policy |-> "HashTruncated"])
       ELSE IF ~io.opened THEN Skip
       ELSE DownloadData(ChunkItems(io.bytes, config.chunk_size, io.failed))

\* download without the take(max_size).
download_untruncated(f, entry, config, fault) ==
    LET len == MetadataLen(f, entry.metadata)
        io == FileRead(f, entry.path, NoFault, fault)
    IN IF len > config.max_size /\ config.oversized_file_policy = "Skip"
       THEN Skip
       ELSE IF len > config.max_size
               /\ config.oversized_file_policy = "HashTruncated"
       THEN HashRequest([max_size |-> config.max_size,
                         oversized_file_policy |-> "HashTruncated"])
       ELSE IF ~io.opened THEN Skip
       ELSE DownloadData(ChunkItems(io.bytes, config.chunk_size, io.failed))

\* download: the decision on an oversized file, then the chunks of the
\* first max_size bytes of the file.
download(f, entry, config, fault) ==
    LET len == MetadataLen(f, entry.metadata)
        io == FileRead(f, entry.path, config.max_size, fault)
    IN IF len > config.max_size /\ config.oversized_file_policy = "Skip"
       THEN Skip
       ELSE IF len > config.max_size
               /\ config.oversized_file_policy = "HashTruncated"
       THEN HashRequest([max_size |-> config.max_size,
                         oversized_file_policy |-> "HashTruncated"])
       ELSE IF ~io.opened THEN Skip
       ELSE DownloadData(ChunkItems(io.bytes, config.chunk_size, io.failed))

\* ChunkId::make
ChunkId(chunk, offset) ==
    [sha256 |-> chunk, offset |-> offset, length |-> Len(chunk)]

\* Response and Response::into_proto
ResponseStat(st, matches) == [kind |-> "Stat", stat |-> st, matches |-> matches]
ResponseHash(h, st, matches) ==
    [kind |-> "Hash", hash |-> h, stat |-> st, matches |-> matches]
ResponseDownload(d, st, matches) ==
    [kind |-> "Download", download |-> d, stat |-> st, matches |-> matches]

\* into_proto filling hash_entry for a download too.
into_proto_hash_of_download(response) ==
    [matches |-> response.matches,
     stat_entry |-> Some(response.stat),
     hash_entry |-> IF response.kind = "Hash" THEN Some(response.hash)
                    ELSE IF response.kind = "Download"
                    THEN Some(HashEntry(<<>>))
                    ELSE NoneOption,
     transferred_file |-> IF response.kind = "Download"
                          THEN Some(response.download) ELSE NoneOption]

into_proto(response) ==
    [matches |-> response.matches,
     stat_entry |-> Some(response.stat),
     hash_entry |-> IF response.kind = "Hash" THEN Some(response.hash)
                    ELSE NoneOption,
     transferred_file |-> IF response.kind = "Download"
                          THEN Some(response.download) ELSE NoneOption]

\* The chunks of a download that were read before the first error.
RECURSIVE OkChunks(_)
OkChunks(items) ==
    IF items = <<>> \/ ~Head(items).ok THEN <<>>
    ELSE <<Head(items).value>> \o OkChunks(Tail(items))

\* The offsets of the chunks: each starts where the one before it ends.
RECURSIVE ChunkIds(_, _)
ChunkIds(chunks, offset) ==
    IF chunks = <<>> THEN <<>>
    ELSE <<ChunkId(Head(chunks), offset)>>
         \o ChunkIds(Tail(chunks), offset + Len(Head(chunks)))

DownloadEntry(chunk_ids, chunk_size) ==
    [chunk_ids |-> chunk_ids, chunk_size |-> chunk_size]

\* What one call of perform_action passes to the session: the responses
\* replied and the chunks sent to the transfer store.
Passed(replied, chunks) == [replied |-> replied, chunks |-> chunks]

\* perform_action replying the chunks read before a failed read.
perform_action_partial(f, entry, request, matches, fault) ==
    LET st == perform_stat_action(f, entry, request.stat_options)
        action == request.action
        replyHash(h) ==
            IF h.some
            THEN Passed(<<ResponseHash(h.v, st.value, matches)>>, <<>>)
            ELSE Passed(<<>>, <<>>)
    IN IF ~st.ok THEN Passed(<<>>, <<>>)
       ELSE CASE action.kind = "None" ->
                   Passed(<<ResponseStat(st.value, matches)>>, <<>>)
              [] action.kind = "Hash" ->
                   replyHash(hash(f, entry, action.config, fault))
              [] action.kind = "Download" ->
                   LET d == download(f, entry, action.config, fault)
                   IN CASE d.kind = "Skip" -> Passed(<<>>, <<>>)
                        [] d.kind = "HashRequest" ->
                             replyHash(hash(f, entry, d.config, fault))
                        [] d.kind = "DownloadData" ->
                             LET chunks == OkChunks(d.chunks)
                                 response ==
                                     DownloadEntry(ChunkIds(chunks, 0),
                                                   action.config.chunk_size)
                             IN Passed(<<ResponseDownload(
                                            response, st.value, matches)>>,
                                       chunks)

\* perform_action replying a descriptor whose last chunk was not sent.
perform_action_unsent(f, entry, request, matches, fault) ==
    LET st == perform_stat_action(f, entry, request.stat_options)
        action == request.action
        replyHash(h) ==
            IF h.some
            THEN Passed(<<ResponseHash(h.v, st.value, matches)>>, <<>>)
            ELSE Passed(<<>>, <<>>)
    IN IF ~st.ok THEN Passed(<<>>, <<>>)
       ELSE CASE action.kind = "None" ->
                   Passed(<<ResponseStat(st.value, matches)>>, <<>>)
              [] action.kind = "Hash" ->
                   replyHash(hash(f, entry, action.config, fault))
              [] action.kind = "Download" ->
                   LET d == download(f, entry, action.config, fault)
                   IN CASE d.kind = "Skip" -> Passed(<<>>, <<>>)
                        [] d.kind = "HashRequest" ->
                             replyHash(hash(f, entry, d.config, fault))
                        [] d.kind = "DownloadData" ->
                             LET chunks == OkChunks(d.chunks)
                                 response ==
                                     DownloadEntry(ChunkIds(chunks, 0),
                                                   action.config.chunk_size)
                             IN IF Len(chunks) < Len(d.chunks)
                                THEN Passed(<<>>, chunks)
                                ELSE Passed(<<ResponseDownload(
                                                 response, st.value, matches)>>,
                                            IF chunks = <<>> THEN <<>>
                                            ELSE Front(chunks))

\* perform_action: nothing when the stat fails; else the response of the
\* configured action.  A failed chunk read ends the call after the chunks
\* read so far were sent, without a reply.
perform_action(f, entry, request, matches, fault) ==
    LET st == perform_stat_action(f, entry, request.stat_options)
        action == request.action
        replyHash(h) ==
            IF h.some
            THEN Passed(<<ResponseHash(h.v, st.value, matches)>>, <<>>)
            ELSE Passed(<<>>, <<>>)
    IN IF ~st.ok THEN Passed(<<>>, <<>>)
       ELSE CASE action.kind = "None" ->
                   Passed(<<ResponseStat(st.value, matches)>>, <<>>)
              [] action.kind = "Hash" ->
                   replyHash(hash(f, entry, action.config, fault))
              [] action.kind = "Download" ->
                   LET d == download(f, entry, action.config, fault)
                   IN CASE d.kind = "Skip" -> Passed(<<>>, <<>>)
                        [] d.kind = "HashRequest" ->
                             replyHash(hash(f, entry, d.config, fault))
                        [] d.kind = "DownloadData" ->
                             LET chunks == OkChunks(d.chunks)
                                 response ==
                                     DownloadEntry(ChunkIds(chunks, 0),
                                                   action.config.chunk_size)
                             IN IF Len(chunks) < Len(d.chunks)
                                THEN Passed(<<>>, chunks)
                                ELSE Passed(<<ResponseDownload(
                                                 response, st.value, matches)>>,
                                            chunks)

\* ---------------------------------------------------------- conditions
ConditionResult(ok, matches) ==
    [ok |-> ok, matches |-> matches, panic |-> FALSE]

\* The evaluation of the condition panicked.
Panicked == [ok |-> FALSE, matches |-> <<>>, panic |-> TRUE]

\* The sizes of the chunks of a content search, scaled down from 10 MiB
\* and 1 MiB.
BYTES_PER_CHUNK == 4
OVERLAP_BYTES == 2

ChunksConfig(bytes_per_chunk, overlap_bytes) ==
    [bytes_per_chunk |-> bytes_per_chunk, overlap_bytes |-> overlap_bytes]

\* The chunks that follow the chunk prev (none yet: <<>>) when the bytes
\* rest are still to be read: every chunk starts with the last
\* overlap_bytes bytes of the one before it and is filled up to
\* bytes_per_chunk bytes; a chunk is only yielded when it holds new bytes;
\* a failed read yields the error item and ends the sequence.
RECURSIVE ChunksAfter(_, _, _, _)
ChunksAfter(prev, rest, config, failed) ==
    LET keep == IF prev = <<>> THEN <<>>
                ELSE SubSeq(prev, Len(prev) - config.overlap_bytes + 1,
                            Len(prev))
        want == config.bytes_per_chunk - Len(keep)
        full == keep \o Take(rest, want)
    IN IF Len(rest) >= want
       THEN <<Ok(full)>>
            \o ChunksAfter(full, SubSeq(rest, want + 1, Len(rest)), config,
                           failed)
       ELSE IF failed THEN <<[ok |-> FALSE, error |-> "read"]>>
       ELSE IF rest # <<>> THEN <<Ok(keep \o rest)>>
       ELSE <<>>

\* chunks::chunks: the items of the iterator over the bytes a reader
\* yields before its end or its error.
chunks(bytes, config, failed) == ChunksAfter(<<>>, bytes, config, failed)

\* The positions at which the pattern p occurs in the chunk.
Hits(chunk, p) ==
    {i \in 1..(Len(chunk) - Len(p) + 1) : SubSeq(chunk, i, i + Len(p) - 1) = p}

\* The reference recorded for the hit at position i (m.start() = i - 1,
\* m.end() = i - 1 + Len(regex)): `m.start() - bytes_before` is computed
\* in usize; when bytes_before is the larger the subtraction overflows
\* or the slice start..end is out of range, and the call panics.
BufferReference(chunk, i, config, offset) ==
    LET start == (i - 1) - config.bytes_before
        end == Min((i - 1) + Len(config.regex) + config.bytes_after,
                   Len(chunk))
    IN IF start < 0 THEN [panic |-> TRUE]
       ELSE [panic |-> FALSE, offset |-> offset + start,
             length |-> end - start, data |-> SubSeq(chunk, start + 1, end)]

\* regex.find_iter over a chunk: the references of the hits from left to
\* right, each search starting where the hit before it ended; the first
\* one only in FirstHit mode.
RECURSIVE ChunkMatches(_, _, _, _)
ChunkMatches(chunk, from, config, offset) ==
    LET later == {i \in Hits(chunk, config.regex) : i >= from}
        i == CHOOSE k \in later : \A j \in later : k <= j
    IN IF later = {} THEN <<>>
       ELSE <<BufferReference(chunk, i, config, offset)>>
            \o (IF config.mode = "FirstHit" THEN <<>>
                ELSE ChunkMatches(chunk, i + Len(config.regex), config,
                                  offset))

\* The loop of the content search with the offset moved on by a whole
\* chunk, the overlap not taken off.
RECURSIVE ScanChunks_whole_chunk(_, _, _, _)
ScanChunks_whole_chunk(items, config, offset, matches) ==
    IF items = <<>> THEN ConditionResult(matches # <<>>, matches)
    ELSE IF ~Head(items).ok THEN ConditionResult(FALSE, <<>>)
    ELSE LET found == ChunkMatches(Head(items).value, 1, config, offset)
         IN IF \E i \in 1..Len(found) : found[i].panic THEN Panicked
            ELSE IF config.mode = "FirstHit" /\ found # <<>>
            THEN ConditionResult(TRUE, matches \o found)
            ELSE ScanChunks_whole_chunk(Tail(items), config,
                                        offset + BYTES_PER_CHUNK,
                                        matches \o found)

\* The loop of the content search over the chunks: a failed chunk ends it
\* with ok(false), dropping the matches found so far.
RECURSIVE ScanChunks(_, _, _, _)
ScanChunks(items, config, offset, matches) ==
    IF items = <<>> THEN ConditionResult(matches # <<>>, matches)
    ELSE IF ~Head(items).ok THEN ConditionResult(FALSE, <<>>)
    ELSE LET found == ChunkMatches(Head(items).value, 1, config, offset)
         IN IF \E i \in 1..Len(found) : found[i].panic THEN Panicked
            ELSE IF config.mode = "FirstHit" /\ found # <<>>
            THEN ConditionResult(TRUE, matches \o found)
            ELSE ScanChunks(Tail(items), config,
                            offset + BYTES_PER_CHUNK - OVERLAP_BYTES,
                            matches \o found)

\* The time of the given kind in a metadata snapshot, and the extended
\* flags of a file: the attribute of the object, -1 for a value that cannot
\* be obtained.
DefaultTime == 5
TimeOf(f, md, which) ==
    IF md.kind # "noent" /\ "times" \in DOMAIN f[md.id]
    THEN f[md.id].times[which] ELSE DefaultTime

flags(f, path) ==
    LET md == Metadata(f, path)
    IN IF md.kind = "noent" THEN [ok |-> FALSE, error |-> "flags"]
       ELSE IF "flags" \in DOMAIN f[md.id]
       THEN (IF f[md.id].flags = {-1} THEN [ok |-> FALSE, error |-> "flags"]
             ELSE Ok(f[md.id].flags))
       ELSE Ok({})

\* check_condition with a time that cannot be obtained failing the
\* condition.
check_condition_fail_closed(f, condition, entry, fault) ==
    CASE condition.kind \in {"MinModificationTime", "MinAccessTime",
                             "MinInodeChangeTime"} ->
           LET actual == TimeOf(f, entry.metadata, condition.kind)
           IN ConditionResult(
                  actual >= 0 /\ actual >= condition.expected, <<>>)
      [] condition.kind \in {"MaxModificationTime", "MaxAccessTime",
                             "MaxInodeChangeTime"} ->
           LET actual == TimeOf(f, entry.metadata, condition.kind)
           IN ConditionResult(
                  actual >= 0 /\ actual <= condition.expected, <<>>)
      [] condition.kind = "MinSize" ->
           ConditionResult(
               MetadataLen(f, entry.metadata) >= condition.expected, <<>>)
      [] condition.kind = "MaxSize" ->
           ConditionResult(
               MetadataLen(f, entry.metadata) <= condition.expected, <<>>)
      [] condition.kind = "ExtFlagsLinuxBitsSet" ->
           LET fl == flags(f, entry.path)
           IN ConditionResult(
                  ~fl.ok \/ (fl.value \cap condition.expected) = fl.value,
                  <<>>)
      [] condition.kind = "ExtFlagsLinuxBitsUnset" ->
           LET fl == flags(f, entry.path)
           IN ConditionResult(
                  ~fl.ok \/ (fl.value \cap condition.expected) = {}, <<>>)
      [] condition.kind \in {"ExtFlagsOsxBitsSet", "ExtFlagsOsxBitsUnset"} ->
           ConditionResult(TRUE, <<>>)
      [] condition.kind = "ContentsRegexMatch" ->
           LET io == ReadFrom(f, entry.path, condition.start_offset,
                              condition.length, fault)
               items == chunks(io.bytes,
                               ChunksConfig(BYTES_PER_CHUNK, OVERLAP_BYTES),
                               io.failed)
           IN IF ~io.opened THEN ConditionResult(FALSE, <<>>)
              ELSE ScanChunks(items, condition, 0, <<>>)
      [] condition.kind = "ContentsLiteralMatch" ->
           ConditionResult(TRUE, <<>>)

\* check_condition.  A value that cannot be obtained meets a condition on
\* the metadata; a file that cannot be opened or read does not meet a
\* condition on the content.
check_condition(f, condition, entry, fault) ==
    CASE condition.kind \in {"MinModificationTime", "MinAccessTime",
                             "MinInodeChangeTime"} ->
           LET actual == TimeOf(f, entry.metadata, condition.kind)
           IN ConditionResult(
                  actual < 0 \/ actual >= condition.expected, <<>>)
      [] condition.kind \in {"MaxModificationTime", "MaxAccessTime",
                             "MaxInodeChangeTime"} ->
           LET actual == TimeOf(f, entry.metadata, condition.kind)
           IN ConditionResult(
                  actual < 0 \/ actual <= condition.expected, <<>>)
      [] condition.kind = "MinSize" ->
           ConditionResult(
               MetadataLen(f, entry.metadata) >= condition.expected, <<>>)
      [] condition.kind = "MaxSize" ->
           ConditionResult(
               MetadataLen(f, entry.metadata) <= condition.expected, <<>>)
      [] condition.kind = "ExtFlagsLinuxBitsSet" ->
           LET fl == flags(f, entry.path)
           IN ConditionResult(
                  ~fl.ok \/ (fl.value \cap condition.expected) = fl.value,
                  <<>>)
      [] condition.kind = "ExtFlagsLinuxBitsUnset" ->
           LET fl == flags(f, entry.path)
           IN ConditionResult(
                  ~fl.ok \/ (fl.value \cap condition.expected) = {}, <<>>)
      [] condition.kind \in {"ExtFlagsOsxBitsSet", "ExtFlagsOsxBitsUnset"} ->
           ConditionResult(TRUE, <<>>)
      [] condition.kind = "ContentsRegexMatch" ->
           LET io == ReadFrom(f, entry.path, condition.start_offset,
                              condition.length, fault)
               items == chunks(io.bytes,
                               ChunksConfig(BYTES_PER_CHUNK, OVERLAP_BYTES),
                               io.failed)
           IN IF ~io.opened THEN ConditionResult(FALSE, <<>>)
              ELSE ScanChunks(items, condition, 0, <<>>)
      [] condition.kind = "ContentsLiteralMatch" ->
           ConditionResult(TRUE, <<>>)

\* check_conditions: every condition is met.
check_conditions(f, conditions, entry) ==
    \A i \in 1..Len(conditions) :
        check_condition(f, conditions[i], entry, NoFault).ok

RECURSIVE Concat(_)
Concat(seqs) == IF seqs = <<>> THEN <<>> ELSE Head(seqs) \o Concat(Tail(seqs))

\* find_matches: the conditions are evaluated in order; the matches of
\* all of them, one after the other, or none when one of the conditions
\* has none.  A panic of an evaluation is the single item [panic |-> TRUE].
RECURSIVE MatchesFrom(_, _, _, _, _)
MatchesFrom(f, conditions, entry, fault, matches) ==
    IF conditions = <<>> THEN matches
    ELSE LET r == check_condition(f, Head(conditions), entry, fault)
         IN IF r.panic THEN <<[panic |-> TRUE]>>
            ELSE IF ~r.ok \/ r.matches = <<>> THEN <<>>
            ELSE MatchesFrom(f, Tail(conditions), entry, fault,
                             matches \o r.matches)

find_matches(f, conditions, entry, fault) ==
    MatchesFrom(f, conditions, entry, fault, <<>>)

\* ------------------------------------------------------------ requests
NoAction == [kind |-> "None"]
HashAction(max_size, policy) ==
    [kind |-> "Hash",
     config |-> [max_size |-> max_size, oversized_file_policy |-> policy]]
DownloadAction(max_size, policy, chunk_size) ==
    [kind |-> "Download",
     config |-> [max_size |-> max_size, oversized_file_policy |-> policy,
                 chunk_size |-> chunk_size]]

Request(path_queries, stat_options, action, conditions, contents_match_conditions, process_non_regular_files, request_follow_links, xdev_mode) ==
    [path_queries |-> path_queries,
     stat_options |-> stat_options,
     action |-> action,
     conditions |-> conditions,
     contents_match_conditions |-> contents_match_conditions,
     process_non_regular_files |-> process_non_regular_files,
     follow_links |-> request_follow_links,
     xdev_mode |-> xdev_mode]

\* `/**5a` and `/**/a/**`: the queries build_task rejects.
BadToken == Slashed(<<<<"*", "*", "5", "a">>>>)
TwoScans == Slashed(<<SS, A, SS>>)
\* `{/b,x}/l` expands to the absolute /b/l and the relative x/l.
HalfRelative ==
    <<"{">> \o Slashed(<<B>>) \o <<",">> \o X \o <<"}">> \o Slashed(<<L>>)

PathQueryLists ==
    {<<>>,
     <<Slashed(<<A, F>>)>>,
     <<Slashed(<<A>>) \o <<"/", "{", "f", ",", "x", "}">>>>,
     <<Slashed(<<B, SS>>)>>,
     <<Slashed(<<A, Star>>), Slashed(<<B, L>>)>>,
     <<A \o Slashed(<<F>>)>>,
     <<Slashed(<<A, F>>), HalfRelative>>,
     <<Slashed(<<A, F>>), BadToken>>,
     <<BadToken, Slashed(<<A, F>>)>>,
     <<Slashed(<<A, Star>>), TwoScans, Slashed(<<B, L>>)>>}

Actions ==
    {NoAction,
     HashAction(2, "Skip"), HashAction(2, "HashTruncated"),
     DownloadAction(2, "Skip", 2), DownloadAction(2, "HashTruncated", 2),
     DownloadAction(2, "DownloadTruncated", 1), DownloadAction(5, "Skip", 2)}

MinSize(expected) == [kind |-> "MinSize", expected |-> expected]
MaxSize(expected) == [kind |-> "MaxSize", expected |-> expected]
ContentsRegexMatch(regex, mode, start_offset, length, bytes_before, bytes_after) ==
    [kind |-> "ContentsRegexMatch", regex |-> regex, mode |-> mode,
     start_offset |-> start_offset, length |-> length,
     bytes_before |-> bytes_before, bytes_after |-> bytes_after]

XDevModes == {"Local", "Never", "Always"}

\* The requests handle is given; the requests it rejects at once are not
\* varied further.
Requests ==
    {r \in {Request(q, [follow_symlink |-> fsl], a, c, m, p, fl, x) :
              q \in PathQueryLists, fsl \in BOOLEAN, a \in Actions,
              c \in {<<>>, <<MinSize(3)>>},
              m \in {<<>>, <<ContentsRegexMatch(<<2>>, "AllHits", 0, 10, 0, 1)>>},
              p \in BOOLEAN, fl \in BOOLEAN, x \in XDevModes} :
        /\ (r.process_non_regular_files \/ r.xdev_mode # "Local")
              => /\ r.action.kind \in {"None", "Download"}
                 /\ r.action.kind = "Download"
                       => r.action.config.max_size = 5
                 /\ r.conditions = <<>> /\ r.contents_match_conditions = <<>>
                 /\ ~r.follow_links /\ ~r.stat_options.follow_symlink
        /\ r.contents_match_conditions # <<>>
              => r.conditions = <<>> /\ ~r.stat_options.follow_symlink}

\* ------------------------------------------------- the parser on its own
LF == "\n"

\* `**2147483648`: the digits do not fit an i32.
TooDeep == <<"*", "*", "2", "1", "4", "7", "4", "8", "3", "6", "4", "8">>

\* Texts of one path component: names, globs, recursive tokens of every
\* depth, and tokens with text before or after them.
ParseSegments ==
    {A, DotDot, Star, <<"?">>, <<"a", "*">>, SS, SS0, SS1, SS2, TooDeep,
     <<"*", "*", "5", "a">>, <<"*", "*", "a">>, <<"*", "*", "*">>,
     <<"a", "*", "*">>, <<"x", "*", "*", "2">>, <<"*", "*", LF, "a">>}

MaxSegments == 3

ParseQueries ==
    UNION {[1..n -> ParseSegments] : n \in 0..MaxSegments}

NotBuilt == [ok |-> FALSE, error |-> "NotCalled", path |-> EmptyPath]

ParseInit ==
    /\ fs = FsOneFile
    /\ query \in ParseQueries
    /\ follow_links = FALSE
    /\ tasks = <<>>
    /\ outputs = <<>>
    /\ emitted = <<>>
    /\ listed = {}
    /\ result = "call"
    /\ built = NotBuilt
    /\ HandleIdle

\* resolve_path: the task is built and, unless build_task failed, becomes
\* the only task of the iterator.
resolve_path ==
    /\ result = "call"
    /\ built' = build_task(query)
    /\ tasks' = IF build_task(query).ok THEN <<build_task(query).value>>
                ELSE <<>>
    /\ result' = IF build_task(query).ok THEN "iter" ELSE "err"
    /\ UNCHANGED <<fs, query, follow_links, outputs, emitted, listed, hvars>>

ParseNext == resolve_path

ParseSpec == ParseInit /\ [][ParseNext]_vars

\* ------------------------------------------------------- the handler
\* Read errors injected into the reads of one entry: none, after the
\* first byte, or after the first whole chunk of a content search.
Faults == {NoFault, 1, BYTES_PER_CHUNK}

\* The read errors that can show in a turn of the loop: those of the
\* content conditions and those of the action, when there is one to read
\* the file.
ConditionFaults ==
    IF req.contents_match_conditions = <<>> THEN {NoFault} ELSE Faults
ActionFaults == IF req.action.kind = "None" THEN {NoFault} ELSE Faults

HandleFileSystems == {FsLink, FsCycle}

HandleInit ==
    /\ fs \in HandleFileSystems
    /\ req \in Requests
    /\ follow_links = req.follow_links
    /\ query = <<>>
    /\ tasks = <<>>
    /\ outputs = <<>>
    /\ emitted = <<>>
    /\ listed = {}
    /\ result = "none"
    /\ built = NotBuilt
    /\ paths = <<>>
    /\ path_idx = 0
    /\ handled = "start"
    /\ replies = <<>>
    /\ sent = <<>>

\* The strings of all the queries after expand_groups, in order.
ExpandedQueries(r) ==
    Concat([i \in 1..Len(r.path_queries) |-> expand_groups(r.path_queries[i])])

\* handle up to the loop over the entries: the request is rejected for
\* process_non_regular_files, for an xdev mode other than Local and for a
\* query that is not absolute; else the paths are collected.  Nothing is
\* resolved yet: `entries` is a lazy iterator.
HandleStart ==
    /\ handled = "start"
    /\ LET strings == ExpandedQueries(req)
           absolute == [i \in 1..Len(strings) |-> into_absoute_path(strings[i])]
       IN IF \/ req.process_non_regular_files
             \/ req.xdev_mode # "Local"
             \/ \E i \in 1..Len(strings) : ~absolute[i].ok
          THEN handled' = "err" /\ paths' = paths
          ELSE /\ handled' = "run"
               /\ paths' = [i \in 1..Len(strings) |-> absolute[i].value]
    /\ UNCHANGED <<fs, query, follow_links, tasks, outputs, emitted, listed,
                   result, built, req, path_idx, replies, sent>>

\* The flat_map moves to the next path: resolve_path builds its task.  The
\* value build_task returns is put into the iterator as it is; for an error
\* the iterator of that path yields nothing, or the error ends the request.
HandleNextPath ==
    /\ handled = "run"
    /\ result \in {"none", "err"}
    /\ path_idx < Len(paths)
    /\ path_idx' = path_idx + 1
    /\ query' = paths[path_idx + 1].comps
    /\ built' = build_task(paths[path_idx + 1].comps)
    /\ outputs' = <<>>
    /\ IF build_task(paths[path_idx + 1].comps).ok
       THEN /\ tasks' = <<build_task(paths[path_idx + 1].comps).value>>
            /\ result' = "iter"
            /\ handled' = handled
       ELSE /\ tasks' = <<>>
            /\ result' = "err"
            /\ handled' \in {"run", "err"}
    /\ UNCHANGED <<fs, follow_links, emitted, listed, req, paths, replies, sent>>

\* HandleEntry without the test for an entry with no match.
HandleEntry_no_match_check ==
    /\ handled = "run"
    /\ result = "iter"
    /\ outputs # <<>>
    /\ outputs' = Front(outputs)
    /\ emitted' = Append(emitted, Last(outputs))
    /\ \E cfault \in ConditionFaults, afault \in ActionFaults :
          LET entry == Last(outputs)
              matches == find_matches(fs, req.contents_match_conditions,
                                      entry, cfault)
              passed == perform_action(fs, entry, req, matches, afault)
          IN IF ~check_conditions(fs, req.conditions, entry)
             THEN UNCHANGED <<handled, replies, sent>>
             ELSE IF \E i \in 1..Len(matches) : matches[i].panic
             THEN handled' = "panic" /\ UNCHANGED <<replies, sent>>
             ELSE /\ replies' = replies \o
                        [i \in 1..Len(passed.replied) |->
                            into_proto(passed.replied[i])]
                  /\ sent' = sent \o passed.chunks
                  /\ handled' = handled
    /\ UNCHANGED <<fs, query, follow_links, tasks, listed, result, built, req,
                   paths, path_idx>>

\* One turn of the loop of handle: the next entry is taken from the
\* iterator, is checked against the conditions and, unless it is skipped,
\* passed to perform_action.
HandleEntry ==
    /\ handled = "run"
    /\ result = "iter"
    /\ outputs # <<>>
    /\ outputs' = Front(outputs)
    /\ emitted' = Append(emitted, Last(outputs))
    /\ \E cfault \in ConditionFaults, afault \in ActionFaults :
          LET entry == Last(outputs)
              matches == find_matches(fs, req.contents_match_conditions,
                                      entry, cfault)
              passed == perform_action(fs, entry, req, matches, afault)
          IN IF ~check_conditions(fs, req.conditions, entry)
             THEN UNCHANGED <<handled, replies, sent>>
             ELSE IF \E i \in 1..Len(matches) : matches[i].panic
             THEN handled' = "panic" /\ UNCHANGED <<replies, sent>>
             ELSE IF Len(req.contents_match_conditions) > 0 /\ matches = <<>>
             THEN UNCHANGED <<handled, replies, sent>>
             ELSE /\ replies' = replies \o
                        [i \in 1..Len(passed.replied) |->
                            into_proto(passed.replied[i])]
                  /\ sent' = sent \o passed.chunks
                  /\ handled' = handled
    /\ UNCHANGED <<fs, query, follow_links, tasks, listed, result, built, req,
                   paths, path_idx>>

\* The iterator of the last path is exhausted: handle returns Ok(()).
HandleDone ==
    /\ handled = "run"
    /\ result \in {"none", "err"}
    /\ path_idx = Len(paths)
    /\ handled' = "ok"
    /\ UNCHANGED <<fs, query, follow_links, tasks, outputs, emitted, listed,
                   result, built, req, paths, path_idx, replies, sent>>

\* While the request runs, the entries come from ResolvePath::next.
HandleResolve ==
    /\ handled = "run"
    /\ \/ NextResolveConstant
       \/ NextResolveGlob
       \/ NextResolveRecursiveScan
       \/ NextNone

HandleNext ==
    \/ HandleStart
    \/ HandleNextPath
    \/ HandleResolve
    \/ HandleEntry
    \/ HandleDone

HandleSpec == HandleInit /\ [][HandleNext]_vars

\* ------------------------------------ the client_side_file_finder handler
PathTypes == {"Os", "Tsk", "Registry"}

\* client_side_file_finder::request::Request
LegacyRequest(request_paths, path_type, action, conditions, process_non_regular_files, request_follow_links, xdev_mode) ==
    [paths |-> request_paths,
     path_type |-> path_type,
     action |-> action,
     conditions |-> conditions,
     process_non_regular_files |-> process_non_regular_files,
     follow_links |-> request_follow_links,
     xdev_mode |-> xdev_mode]

LegacyRequests ==
    {LegacyRequest(q, t, a, c, p, fl, x) :
        q \in {<<>>, <<Slashed(<<A, F>>)>>, <<A \o Slashed(<<F>>)>>},
        t \in PathTypes,
        a \in {NoAction, [kind |-> "Stat"], HashAction(2, "Skip"),
               DownloadAction(2, "Skip", 2)},
        c \in {<<>>, <<MinSize(3)>>},
        p \in BOOLEAN, fl \in BOOLEAN, x \in XDevModes}

\* client_side_file_finder::action::Response
LegacyResponse == [kind |-> "Response"]

LegacyInit ==
    /\ fs \in {FsOneFile}
    /\ req \in LegacyRequests
    /\ follow_links = req.follow_links
    /\ query = <<>>
    /\ tasks = <<>>
    /\ outputs = <<>>
    /\ emitted = <<>>
    /\ listed = {}
    /\ result = "none"
    /\ built = NotBuilt
    /\ paths = <<>>
    /\ path_idx = 0
    /\ handled = "start"
    /\ replies = <<>>
    /\ sent = <<>>

\* client_side_file_finder::action::handle: the checks of the request in
\* the order of the code, each an early return; parse_path panics on a path
\* that is not absolute; the resolved paths are only printed, and one
\* empty Response is replied.
LegacyOutcome(r) ==
    IF r.path_type # "Os" THEN "err"
    ELSE IF Len(r.conditions) > 0 THEN "err"
    ELSE IF r.process_non_regular_files THEN "err"
    ELSE IF r.follow_links THEN "err"
    ELSE IF r.xdev_mode # "Local" THEN "err"
    ELSE IF Len(r.paths) = 0 THEN "err"
    ELSE IF r.action.kind = "None" THEN "ok"
    ELSE IF r.action.kind \in {"Hash", "Download"} THEN "err"
    ELSE IF \E i \in 1..Len(r.paths) :
               \E k \in 1..Len(expand_groups(r.paths[i])) :
                   ~is_absolute(expand_groups(r.paths[i])[k])
         THEN "panic"
    ELSE "reply"

\* LegacyOutcome without the test of the path type.
LegacyHandle_any_path_type ==
    /\ handled = "start"
    /\ LET outcome == LegacyOutcome([req EXCEPT !.path_type = "Os"])
       IN /\ handled' = IF outcome = "reply" THEN "ok" ELSE outcome
          /\ replies' = IF outcome = "reply" THEN <<LegacyResponse>> ELSE <<>>
    /\ UNCHANGED <<fs, query, follow_links, tasks, outputs, emitted, listed,
                   result, built, req, paths, path_idx, sent>>

LegacyHandle ==
    /\ handled = "start"
    /\ LET outcome == LegacyOutcome(req)
       IN /\ handled' = IF outcome = "reply" THEN "ok" ELSE outcome
          /\ replies' = IF outcome = "reply" THEN <<LegacyResponse>> ELSE <<>>
    /\ UNCHANGED <<fs, query, follow_links, tasks, outputs, emitted, listed,
                   result, built, req, paths, path_idx, sent>>

LegacyNext == LegacyHandle

LegacySpec == LegacyInit /\ [][LegacyNext]_vars

\* ------------------------------------- the handler on files with data
MaxData == 5

\* The contents of a file: the byte sequences over two byte values.
Datas == UNION {[1..n -> {1, 2}] : n \in 0..MaxData}

\* Times and flags of a file: obtained, or not to be had.
Attributes ==
    {[times |-> [t \in {"MinModificationTime", "MaxModificationTime",
                        "MinAccessTime", "MaxAccessTime",
                        "MinInodeChangeTime", "MaxInodeChangeTime"} |-> v],
      flags |-> fl] : v \in {-1, 3}, fl \in {{-1}, {1}, {1, 2}}}

PlainAttributes ==
    [times |-> [t \in {"MinModificationTime", "MaxModificationTime",
                       "MinAccessTime", "MaxAccessTime",
                       "MinInodeChangeTime", "MaxInodeChangeTime"} |-> 3],
     flags |-> {1}]

\* The directory /a with the file /a/f of the given content and the
\* symbolic link /a/l to it.
FsData(bytes, attributes) ==
    (<<>> :> DirNode) @@ (<<A>> :> DirNode)
    @@ (<<A, F>> :> [kind |-> "file", target |-> <<>>, bytes |-> bytes,
                     times |-> attributes.times, flags |-> attributes.flags])
    @@ (<<A, L>> :> LinkNode(<<A, F>>))

DataQueries ==
    {<<Slashed(<<A, F>>)>>, <<Slashed(<<A, Star>>)>>, <<Slashed(<<A, SS1>>)>>}

DataActions ==
    {NoAction}
    \cup {HashAction(m, p) : m \in {0, 2, 9}, p \in {"Skip", "HashTruncated"}}
    \cup {DownloadAction(m, p, c) :
            m \in {0, 2, 9},
            p \in {"Skip", "HashTruncated", "DownloadTruncated"},
            c \in {0, 2}}

ContentConditions ==
    {ContentsRegexMatch(r, m, s, n, b, a) :
        r \in {<<1>>, <<1, 2>>}, m \in {"FirstHit", "AllHits"},
        s \in {0, 1}, n \in {BYTES_PER_CHUNK, 10}, b \in {0, 1}, a \in {0, 1}}

TimeCondition(kind, expected) == [kind |-> kind, expected |-> expected]

MetadataConditions ==
    {TimeCondition(k, e) :
        k \in {"MinModificationTime", "MaxModificationTime", "MinAccessTime",
               "MaxAccessTime", "MinInodeChangeTime", "MaxInodeChangeTime",
               "ExtFlagsOsxBitsSet", "ExtFlagsOsxBitsUnset"},
        e \in {2, 4}}
    \cup {TimeCondition(k, e) :
            k \in {"ExtFlagsLinuxBitsSet", "ExtFlagsLinuxBitsUnset"},
            e \in {{1}, {2}}}
    \cup {MinSize(2), MaxSize(2)}

\* The requests on the files with data: an action without conditions,
\* content conditions without an action, or one condition on the metadata.
DataRequests ==
    {r \in {Request(q, [follow_symlink |-> FALSE], a, <<>>, <<>>, FALSE, FALSE, "Local") :
              q \in DataQueries, a \in DataActions} :
        r.path_queries = <<Slashed(<<A, SS1>>)>> => r.action = NoAction}
    \cup {Request(q, [follow_symlink |-> FALSE], NoAction, <<>>, m, FALSE, FALSE, "Local") :
            q \in {<<Slashed(<<A, Star>>)>>},
            m \in {<<c>> : c \in ContentConditions}
                  \cup {<<ContentsRegexMatch(<<1>>, "AllHits", 0, 10, 0, 0),
                          ContentsRegexMatch(<<2>>, "FirstHit", 0, 10, 0, 0)>>}}
    \cup {Request(q, [follow_symlink |-> FALSE], NoAction, <<c>>, <<>>, FALSE, FALSE, "Local") :
            q \in {<<Slashed(<<A, Star>>)>>}, c \in MetadataConditions}

DataInit ==
    /\ req \in DataRequests
    /\ fs \in IF req.conditions = <<>>
              THEN {FsData(b, PlainAttributes) : b \in Datas}
              ELSE {FsData(<<1, 2, 1>>, at) : at \in Attributes}
    /\ follow_links = req.follow_links
    /\ query = <<>>
    /\ tasks = <<>>
    /\ outputs = <<>>
    /\ emitted = <<>>
    /\ listed = {}
    /\ result = "none"
    /\ built = NotBuilt
    /\ paths = <<>>
    /\ path_idx = 0
    /\ handled = "start"
    /\ replies = <<>>
    /\ sent = <<>>

DataSpec == DataInit /\ [][HandleNext]_vars

\* ------------------------------------------- the readers on their own
MaxChunk == 4

\* A reader over some bytes, with or without an error at their end, read
\* in chunks by the reader of download (no overlap) or by chunks::chunks.
Readings ==
    {[reader |-> "download", bytes |-> b, failed |-> fl,
      config |-> ChunksConfig(k, 0)] :
        b \in Datas, fl \in BOOLEAN, k \in 0..MaxChunk}
    \cup {r \in {[reader |-> "chunks", bytes |-> b, failed |-> fl,
                   config |-> ChunksConfig(k, o)] :
                    b \in Datas, fl \in BOOLEAN,
                    k \in 1..MaxChunk, o \in 0..MaxChunk} :
            r.config.overlap_bytes < r.config.bytes_per_chunk}

ChunkInit ==
    /\ fs = FsOneFile
    /\ req \in Readings
    /\ follow_links = FALSE
    /\ query = <<>>
    /\ tasks = <<>>
    /\ outputs = <<>>
    /\ emitted = <<>>
    /\ listed = {}
    /\ result = "none"
    /\ built = NotBuilt
    /\ paths = <<>>
    /\ path_idx = 0
    /\ handled = "start"
    /\ replies = <<>>
    /\ sent = <<>>

\* The iterator of download::chunks is run to its end.
ReadDownloadChunks ==
    /\ handled = "start"
    /\ req.reader = "download"
    /\ sent' = ChunkItems(req.bytes, req.config.bytes_per_chunk, req.failed)
    /\ handled' = "ok"
    /\ UNCHANGED <<fs, query, follow_links, tasks, outputs, emitted, listed,
                   result, built, req, paths, path_idx, replies>>

\* The iterator of chunks::chunks is run to its end.
ReadChunks ==
    /\ handled = "start"
    /\ req.reader = "chunks"
    /\ sent' = chunks(req.bytes, req.config, req.failed)
    /\ handled' = "ok"
    /\ UNCHANGED <<fs, query, follow_links, tasks, outputs, emitted, listed,
                   result, built, req, paths, path_idx, replies>>

ChunkNext == ReadDownloadChunks \/ ReadChunks

ChunkSpec == ChunkInit /\ [][ChunkNext]_vars

\* ------------------------------------- the content search on its own
MaxWindow == 7

\* The contents of the file searched: long enough for three chunks.
Windows == UNION {[1..n -> {1, 2}] : n \in 0..MaxWindow}

\* Content conditions with a context shorter and longer than a chunk's
\* start, and a window that ends inside the file or after it.
ScanConditions ==
    {ContentsRegexMatch(r, m, s, n, b, a) :
        r \in {<<1>>, <<1, 2>>}, m \in {"FirstHit", "AllHits"},
        s \in {0, 1}, n \in {3, 20}, b \in {0, 1, 3}, a \in {0, 1, 3}}

\* The entry of the file searched.
ScanEntry ==
    [path |-> AbsPath(<<A, F>>), metadata |-> Metadata(fs, AbsPath(<<A, F>>))]

ScanInit ==
    /\ req \in ScanConditions
    /\ fs \in {FsData(b, PlainAttributes) : b \in Windows}
    /\ follow_links = FALSE
    /\ query = <<>>
    /\ tasks = <<>>
    /\ outputs = <<>>
    /\ emitted = <<>>
    /\ listed = {}
    /\ result = "none"
    /\ built = NotBuilt
    /\ paths = <<>>
    /\ path_idx = 0
    /\ handled = "start"
    /\ replies = <<>>
    /\ sent = <<>>

\* check_condition is called for the content condition and the entry.
CheckContents ==
    /\ handled = "start"
    /\ result' = check_condition(fs, req, ScanEntry, NoFault)
    /\ emitted' = <<ScanEntry>>
    /\ handled' = "ok"
    /\ UNCHANGED <<fs, query, follow_links, tasks, outputs, listed, built,
                   req, paths, path_idx, replies, sent>>

ScanNext == CheckContents

ScanSpec == ScanInit /\ [][ScanNext]_vars

\* --------------------------- names that hold the characters of patterns
BStar == <<"b", "*">>

\* /a holds the directories `b`, `b*` and `**`, each with a child c.
FsGlobNames ==
    (<<>> :> DirNode) @@ (<<A>> :> DirNode)
    @@ (<<A, B>> :> DirNode) @@ (<<A, B, C>> :> FileNode)
    @@ (<<A, BStar>> :> DirNode) @@ (<<A, BStar, C>> :> DirNode)
    @@ (<<A, SS>> :> DirNode) @@ (<<A, SS, C>> :> FileNode)

NameQueries ==
    {<<A, Star, C>>, <<A, BStar, C>>, <<A, SS1, C>>, <<A, SS2>>, <<SS2, C>>,
     <<A, <<"?", "?">>, Star>>, <<A, B, C>>, <<A, Star, DotDot, B, Star>>,
     <<Star, Star, Star>>, <<A, SS2, DotDot, Star>>}

NameInit ==
    /\ fs = FsGlobNames
    /\ query \in NameQueries
    /\ follow_links \in BOOLEAN
    /\ tasks = IF build_task(query).ok THEN <<build_task(query).value>> ELSE <<>>
    /\ outputs = <<>>
    /\ emitted = <<>>
    /\ listed = {}
    /\ result = IF build_task(query).ok THEN "iter" ELSE "err"
    /\ built = build_task(query)
    /\ HandleIdle

NameSpec == NameInit /\ [][Next]_vars

\* ----------------------------------------- the handler on brace groups
\* The directory /a with the two files f and x, and the empty /b.
FsTwoFiles ==
    (<<>> :> DirNode) @@ (<<A>> :> DirNode) @@ (<<A, F>> :> FileNode)
    @@ (<<A, X>> :> FileNode) @@ (<<B>> :> DirNode)

\* The query string pre{alts[1],alts[2],...}post.
GroupString(pre, alts, post) ==
    LET joined[k \in 1..Len(alts)] ==
            IF k = 1 THEN alts[1] ELSE joined[k - 1] \o <<",">> \o alts[k]
    IN pre \o <<"{">> \o joined[Len(alts)] \o <<"}">> \o post

\* Queries with one brace group, as prefix, alternatives and suffix.
Groups ==
    {[pre |-> Slashed(<<A>>) \o <<"/">>, alts |-> a, post |-> <<>>] :
        a \in {<<F, X>>, <<X, F>>, <<F, X, C>>, <<F, Star>>}}
    \cup {[pre |-> <<"/">>, alts |-> <<A, B>>, post |-> Slashed(<<F>>)],
          [pre |-> <<"/">>, alts |-> <<B, A>>, post |-> Slashed(<<SS1>>)]}

\* Queries without a group.
PlainQueries ==
    {Slashed(<<A, F>>), Slashed(<<A, X>>), Slashed(<<A, Star>>),
     Slashed(<<A, SS1>>), Slashed(<<A, C>>)}

GroupRequests ==
    {Request(<<q>>, [follow_symlink |-> FALSE], a, <<>>, <<>>, FALSE, FALSE, "Local") :
        q \in {GroupString(g.pre, g.alts, g.post) : g \in Groups}
              \cup PlainQueries,
        a \in {NoAction, HashAction(2, "Skip")}}

GroupInit ==
    /\ fs = FsTwoFiles
    /\ req \in GroupRequests
    /\ follow_links = req.follow_links
    /\ query = <<>>
    /\ tasks = <<>>
    /\ outputs = <<>>
    /\ emitted = <<>>
    /\ listed = {}
    /\ result = "none"
    /\ built = NotBuilt
    /\ paths = <<>>
    /\ path_idx = 0
    /\ handled = "start"
    /\ replies = <<>>
    /\ sent = <<>>

GroupSpec == GroupInit /\ [][HandleNext]_vars

\* The text of s is `**` followed by digits only.
IsRecursiveToken(s) ==
    /\ Len(s) >= 2
    /\ s[1] = "*" /\ s[2] = "*"
    /\ \A i \in 3..Len(s) : s[i] \in Digits

\* The text of s is `**`, digits, and then something that is not a digit.
HasTrailingText(s) ==
    /\ Len(s) >= 2
    /\ s[1] = "*" /\ s[2] = "*"
    /\ SkipDigits(s, 3) <= Len(s)

\* The segments of q the parser turns into a recursive component.
ScanSegments(q) == {i \in 1..Len(q) : ComponentKind(q[i]) = "RecursiveScan"}
\* The segments of q the parser rejects.
ErrorSegments(q) == {i \in 1..Len(q) : ComponentKind(q[i]) = "Error"}

Failed(error) == result = "err" /\ ~built.ok /\ built.error = error

\* The components a task holds.
ScansOf(t) ==
    {c \in Range(<<t.current_component>> \o t.remaining_components) :
        c.kind = "RecursiveScan"}

\* -------------------------------------------------------------------- C11
\* C11 as stated: build_task returns MultipleRecursiveComponentsInPath,
\* carrying the whole query path, if and only if the query holds more than
\* one recursive-descent segment; no task is created in that case.
C11_MultipleIffSeveralScans ==
    result # "call" =>
        /\ (Failed("MultipleRecursiveComponentsInPath")
               <=> Cardinality(ScanSegments(query)) > 1)
        /\ Failed("MultipleRecursiveComponentsInPath")
               => built.path = QueryPath(query) /\ tasks = <<>>

\* C11 (amended): build_task returns MultipleRecursiveComponentsInPath,
\* carrying the whole query path, if and only if no segment of the query is
\* rejected by the parser and more than one segment is parsed as a
\* recursive component; no task is created in that case.  A query that also
\* holds an invalid recursive token fails with that token's error instead.
C11_MultipleIffSeveralScansAndNoneInvalid ==
    result # "call" =>
        /\ (Failed("MultipleRecursiveComponentsInPath")
               <=> /\ ErrorSegments(query) = {}
                   /\ Cardinality(ScanSegments(query)) > 1)
        /\ Failed("MultipleRecursiveComponentsInPath")
               => built.path = QueryPath(query) /\ tasks = <<>>

\* `/**/a/**` has been rejected, the error carrying the whole path.
C11_Witness ==
    /\ query = <<SS, A, SS>>
    /\ Failed("MultipleRecursiveComponentsInPath")
    /\ built.path = AbsPath(<<SS, A, SS>>)
    /\ tasks = <<>>

\* -------------------------------------------------------------------- C12
\* C12: a segment made of `**`, optional digits and then any further
\* characters makes build_task fail with InvalidRecursiveComponentInPath
\* carrying that segment (the first such segment, when no earlier segment
\* is rejected); it is never parsed as a recursive, glob or literal segment.
C12_TrailingTextRejected ==
    result # "call" =>
        \A i \in 1..Len(query) :
            /\ HasTrailingText(query[i])
            /\ \A j \in 1..(i - 1) : ComponentKind(query[j]) # "Error"
            => /\ Failed("InvalidRecursiveComponentInPath")
               /\ built.path = RelPath(<<query[i]>>)
               /\ tasks = <<>>

\* -------------------------------------------------------------------- C13
\* C13: a segment is parsed as a recursive component only if its entire
\* text is `**` optionally followed by digits: a task built by the parser
\* holds a recursive component only if the query has such a segment.
C13_OnlyWholeTokensAreRecursive ==
    result # "call" =>
        /\ \A i \in 1..Len(query) :
              ComponentKind(query[i]) = "RecursiveScan"
                  => IsRecursiveToken(query[i])
        /\ tasks # <<>> /\ ScansOf(Last(tasks)) # {}
              => \E i \in 1..Len(query) : IsRecursiveToken(query[i])

\* -------------------------------------------------------------------- C14
\* C14: every recursive component produced by the parser, and every one
\* held by a task of the work-list during resolution, has max_depth >= 1.
C14_DepthPositive ==
    \A i \in 1..Len(tasks) : \A c \in ScansOf(tasks[i]) : c.max_depth >= 1

\* -------------------------------------------------------------------- C18
\* The task about to be popped lists its path_prefix, and the stat or the
\* listing of the path_prefix fails (it is missing or not a directory).
ListingFails ==
    /\ result = "iter" /\ outputs = <<>> /\ tasks # <<>>
    /\ Last(tasks).current_component.kind \in {"Glob", "RecursiveScan"}
    /\ Metadata(fs, Last(tasks).path_prefix).kind # "dir"

\* C18: a failure to stat or list the path_prefix of a Glob or
\* RecursiveScan task is not fatal: the step only drops that task (no
\* entry, no follow-up task, the iterator goes on), the resolution never
\* ends with tasks left on the work-list, and entries of sibling subtrees
\* are emitted (`/*/*` where /c is a file still yields the children of /a).
C18_FailedListingNotFatal ==
    /\ [][ListingFails => /\ tasks' = Front(tasks)
                          /\ outputs' = <<>>
                          /\ emitted' = emitted
                          /\ result' = "iter"]_vars
    /\ [](tasks # <<>> => result = "iter")
    /\ <>(result \in {"none", "err"})
    /\ [](Done /\ fs = FsWide /\ query = <<Star, Star>>
            => EmittedPaths = {AbsPath(<<A, B>>), AbsPath(<<A, C>>),
                               AbsPath(<<A, F>>)})

\* `/*/*` has been resolved to the end: the file /c was listed as the
\* path_prefix of a glob task, and the children of /a were emitted.
C18_Witness ==
    /\ Done /\ fs = FsWide /\ query = <<Star, Star>>
    /\ \E l \in listed : l.path = AbsPath(<<C>>) /\ l.by.kind = "Glob"
    /\ AbsPath(<<A, F>>) \in EmittedPaths

\* -------------------------------------------------------------------- C19
\* C19: resolution is lazy: resolve_path lists nothing; a task is popped
\* and resolved (and a directory listed) only while the output buffer is
\* empty; while the buffer holds an entry, the only step of next() is to
\* return one, so tasks left on the work-list are not touched unless the
\* consumer pulls again.
C19_Lazy ==
    /\ listed = {}
    /\ [][/\ (tasks' # tasks \/ listed' # listed) => outputs = <<>>
          /\ outputs # <<>> => /\ tasks' = tasks
                               /\ listed' = listed
                               /\ outputs' = Front(outputs)
                               /\ emitted' = Append(emitted, Last(outputs))]_vars

\* An entry has been returned while tasks are still on the work-list and
\* more entries are buffered.
C19_Witness ==
    /\ result = "iter" /\ emitted # <<>> /\ outputs # <<>> /\ tasks # <<>>
    /\ listed # {}

\* ------------------------------------------------------------------ C15
\* The request asks for something handle does not support.
Unsupported(r) ==
    \/ r.process_non_regular_files
    \/ r.xdev_mode # "Local"
    \/ \E i \in 1..Len(ExpandedQueries(r)) : ~is_absolute(ExpandedQueries(r)[i])

\* Nothing of the request was resolved and nothing was passed to the session.
Untouched ==
    /\ replies = <<>>
    /\ sent = <<>>
    /\ listed = {}
    /\ emitted = <<>>
    /\ outputs = <<>>
    /\ tasks = <<>>
    /\ built = NotBuilt
    /\ path_idx = 0

\* C15: when process_non_regular_files is set, when xdev_mode is not Local
\* or when a query string is not absolute after the expansion of its
\* groups, handle ends with an error, and until then and after it nothing
\* was resolved, replied or sent to the transfer store.
C15_UnsupportedRejected ==
    Unsupported(req) =>
        /\ handled \in {"start", "err"}
        /\ Untouched

\* A request that is only wrong in one relative alternative of a group
\* was rejected.
C15_Witness ==
    /\ handled = "err"
    /\ req.path_queries = <<Slashed(<<A, F>>), HalfRelative>>
    /\ ~req.process_non_regular_files
    /\ req.xdev_mode = "Local"
    /\ Untouched

Malformed(r) ==
    \E i \in 1..Len(ExpandedQueries(r)) :
        /\ is_absolute(ExpandedQueries(r)[i])
        /\ ~build_task(components(ExpandedQueries(r)[i])).ok

\* C17: a request with a malformed query fails, and nothing is replied or
\* sent for any of its queries.
C17_AllOrNothing ==
    Malformed(req) =>
        /\ handled \in {"start", "run", "err"}
        /\ replies = <<>>
        /\ sent = <<>>

\* ------------------------------------------------------------------ C20
\* The response r is one handle may reply to a request with this action.
ResponseOfAction(r, action) ==
    /\ r.stat_entry.some
    /\ ~(r.hash_entry.some /\ r.transferred_file.some)
    /\ action.kind = "None" =>
           ~r.hash_entry.some /\ ~r.transferred_file.some
    /\ action.kind = "Hash" =>
           r.hash_entry.some /\ ~r.transferred_file.some
    /\ action.kind = "Download" =>
           /\ r.hash_entry.some # r.transferred_file.some
           /\ r.hash_entry.some =>
                  action.config.oversized_file_policy = "HashTruncated"

\* C20: every response replied carries the stat metadata and the matches
\* of the content conditions (some, exactly when there are content
\* conditions), a hash for Hash, a chunk descriptor for Download unless
\* the oversize policy turned it into a hash, and never both.
C20_ResponseShape ==
    (req # NoRequest /\ handled # "start") =>
        \A i \in 1..Len(replies) :
            /\ ResponseOfAction(replies[i], req.action)
            /\ (replies[i].matches = <<>>)
                   <=> (req.contents_match_conditions = <<>>)

\* A download was replied with a chunk descriptor, and one with a hash.
C20_Witness ==
    /\ req.action.kind = "Download"
    /\ replies # <<>>
    /\ replies[1].transferred_file.some
    /\ sent # <<>>

C20_WitnessRedirect ==
    /\ req.action.kind = "Download"
    /\ replies # <<>>
    /\ replies[1].hash_entry.some

\* ------------------------------------------------------------------ C21
\* The entries handed to the loop of handle so far.
Entries == {emitted[i] : i \in 1..Len(emitted)}

\* The entries with the metadata snapshot of a regular file.
FileEntries == {e \in Entries : e.metadata.kind = "file"}

\* The bytes of the chunks of a download, one after the other.
ChunkBytes(items) == Concat(OkChunks(items))

\* The answer download gives on the size of the entry e.
DownloadDecides(e, config) ==
    LET size == MetadataLen(fs, e.metadata)
        content == Content(fs, e.metadata.id)
        d == download(fs, e, config, NoFault)
    IN IF size > config.max_size
       THEN CASE config.oversized_file_policy = "Skip" -> d = Skip
              [] config.oversized_file_policy = "HashTruncated" ->
                   d = HashRequest([max_size |-> config.max_size,
                                    oversized_file_policy |-> "HashTruncated"])
              [] config.oversized_file_policy = "DownloadTruncated" ->
                   /\ d.kind = "DownloadData"
                   /\ Len(OkChunks(d.chunks)) = Len(d.chunks)
                   /\ ChunkBytes(d.chunks) = Take(content, config.max_size)
       ELSE /\ d.kind = "DownloadData"
            /\ Len(OkChunks(d.chunks)) = Len(d.chunks)
            /\ ChunkBytes(d.chunks) = content

\* C21: download compares the size of the snapshot with max_size strictly:
\* above it Skip gives Skip, HashTruncated a HashRequest with the same
\* max_size and DownloadTruncated the first max_size bytes as chunks; up
\* to it (equality included) the whole file is returned as chunks under
\* every policy.
C21_DownloadDecision ==
    req.action.kind = "Download" =>
        \A e \in FileEntries : DownloadDecides(e, req.action.config)

\* A file of exactly max_size bytes was downloaded whole under the Skip
\* policy.
C21_Witness ==
    /\ req.action.kind = "Download"
    /\ req.action.config.oversized_file_policy = "Skip"
    /\ \E e \in FileEntries :
          /\ MetadataLen(fs, e.metadata) = req.action.config.max_size
          /\ req.action.config.max_size > 0
    /\ replies # <<>>
    /\ replies[1].transferred_file.some
    /\ sent # <<>>

\* ------------------------------------------------------------------ C22
\* The sum of the lengths of the chunk ids.
RECURSIVE TotalLength(_)
TotalLength(ids) ==
    IF ids = <<>> THEN 0 ELSE Head(ids).length + TotalLength(Tail(ids))

\* The chunk ids start at offset 0 and each starts where the one before
\* it ends.
Contiguous(ids) ==
    /\ ids # <<>> => ids[1].offset = 0
    /\ \A k \in 1..(Len(ids) - 1) :
           ids[k + 1].offset = ids[k].offset + ids[k].length

\* The content of the file a response is about.
ContentOf(r) == Content(fs, Metadata(fs, r.stat_entry.v.path).id)

\* C22: the descriptor replied for a file larger than max_size (which is
\* only downloaded under DownloadTruncated) has lengths that sum to
\* max_size, and its offsets are 0, len_0, len_0 + len_1, ...
C22_TruncatedDescriptor ==
    (req # NoRequest /\ req.action.kind = "Download") =>
        \A i \in 1..Len(replies) :
            replies[i].transferred_file.some =>
                LET ids == replies[i].transferred_file.v.chunk_ids
                IN /\ Contiguous(ids)
                   /\ Len(ContentOf(replies[i])) > req.action.config.max_size
                          => TotalLength(ids) = req.action.config.max_size

\* A file of more than max_size bytes was replied with a descriptor of
\* several chunks.
C22_Witness ==
    /\ req.action.kind = "Download"
    /\ req.action.config.oversized_file_policy = "DownloadTruncated"
    /\ req.action.config.max_size = 2
    /\ replies # <<>>
    /\ replies[1].transferred_file.some
    /\ Len(ContentOf(replies[1])) > req.action.config.max_size
    /\ Len(replies[1].transferred_file.v.chunk_ids) >= 1

\* ------------------------------------------------------------------ C23
\* A read of the download of e fails when the reads fail after ft bytes.
ChunkReadFails(e, ft) ==
    LET d == download(fs, e, req.action.config, ft)
    IN /\ d.kind = "DownloadData"
       /\ Len(OkChunks(d.chunks)) < Len(d.chunks)

\* C23: when a chunk of a download cannot be read, nothing is replied for
\* the entry (no descriptor of the chunks read so far); handle does not
\* end with an error and goes on with the next entry.
C23_FailedDownloadNotReplied ==
    /\ [](req.action.kind = "Download" =>
            /\ handled # "err"
            /\ \A e \in Entries : \A ft \in Faults :
                   ChunkReadFails(e, ft) =>
                       perform_action(fs, e, req, <<>>, ft).replied = <<>>)
    /\ [][(req.action.kind = "Download" /\ emitted' # emitted
            /\ replies' = replies)
              => handled' = "run"]_vars

\* Chunks of an entry were sent, no response followed, and the request
\* ended well.
C23_Witness ==
    /\ req.action.kind = "Download"
    /\ handled = "ok"
    /\ sent # <<>>
    /\ replies = <<>>
    /\ Len(emitted) = 1
    /\ \E ft \in Faults : ChunkReadFails(emitted[1], ft)

\* ------------------------------------------------------------------ C24
\* The chunks put together again: the first one whole, the others without
\* their first `overlap` bytes.
RECURSIVE Reassembled(_, _, _)
Reassembled(items, overlap, first) ==
    IF items = <<>> THEN <<>>
    ELSE LET c == Head(items).value
         IN (IF first THEN c ELSE SubSeq(c, overlap + 1, Len(c)))
            \o Reassembled(Tail(items), overlap, FALSE)

\* Every chunk after the first starts with the last `overlap` bytes of the
\* chunk before it.
Overlapping(items, overlap) ==
    \A k \in 1..(Len(items) - 1) :
        /\ Len(items[k].value) >= overlap
        /\ Len(items[k + 1].value) >= overlap
        /\ SubSeq(items[k + 1].value, 1, overlap)
              = SubSeq(items[k].value, Len(items[k].value) - overlap + 1,
                       Len(items[k].value))

\* C24: reading in chunks loses nothing: every chunk after the first
\* starts with the last O bytes of the chunk before it, and the chunks
\* without these repeated bytes, one after the other, are the bytes read
\* (with O = 0, as in download, the chunks as they are).
C24_RoundTrip ==
    (handled = "ok" /\ ~req.failed) =>
        /\ \A k \in 1..Len(sent) : sent[k].ok
        /\ Overlapping(sent, req.config.overlap_bytes)
        /\ Reassembled(sent, req.config.overlap_bytes, TRUE) = req.bytes

\* Bytes were read in several chunks by the reader of download, and in
\* several overlapping chunks by chunks::chunks.
C24_Witness ==
    /\ handled = "ok"
    /\ ~req.failed
    /\ req.reader = "download"
    /\ Len(sent) >= 3
    /\ Len(req.bytes) = MaxData

C24_WitnessOverlap ==
    /\ handled = "ok"
    /\ ~req.failed
    /\ req.reader = "chunks"
    /\ req.config.overlap_bytes >= 1
    /\ Len(sent) >= 3

\* ------------------------------------------------------------------ C25
\* C25: every chunk the reader of download yields is non-empty and holds
\* at most chunk_size bytes, every chunk but the last exactly chunk_size,
\* and no empty chunk ends the sequence.
C25_ChunkSizes ==
    (handled = "ok" /\ req.reader = "download") =>
        LET items == OkChunks(sent)
        IN /\ \A k \in 1..Len(items) :
                  /\ items[k] # <<>>
                  /\ Len(items[k]) <= req.config.bytes_per_chunk
           /\ \A k \in 1..(Len(items) - 1) :
                  Len(items[k]) = req.config.bytes_per_chunk

\* ------------------------------------------------------------------ C26
\* C26: for a regular file that can be read, hash gives nothing exactly
\* when the policy is Skip and the size of the snapshot is above max_size;
\* else the digests and num_bytes are those of the first
\* min(size, max_size) bytes.
C26_HashResult ==
    req.action.kind = "Hash" =>
        \A e \in FileEntries :
            LET config == req.action.config
                size == MetadataLen(fs, e.metadata)
                content == Content(fs, e.metadata.id)
                h == hash(fs, e, config, NoFault)
            IN IF config.oversized_file_policy = "Skip"
                  /\ size > config.max_size
               THEN h = NoneOption
               ELSE /\ h = Some(HashEntry(Take(content, config.max_size)))
                    /\ h.v.num_bytes = Min(size, config.max_size)

\* An oversized file was hashed under HashTruncated, with num_bytes equal
\* to max_size.
C26_Witness ==
    /\ req.action.kind = "Hash"
    /\ req.action.config.oversized_file_policy = "HashTruncated"
    /\ req.action.config.max_size = 2
    /\ replies # <<>>
    /\ replies[1].hash_entry.some
    /\ Len(ContentOf(replies[1])) > req.action.config.max_size
    /\ replies[1].hash_entry.v.num_bytes = req.action.config.max_size

\* ------------------------------------------------------------------ C27
\* C27: when the file of an entry cannot be opened or a read of it fails,
\* hash gives no result.
C27_NoHashOfFailedRead ==
    req.action.kind = "Hash" =>
        \A e \in Entries : \A ft \in Faults :
            LET io == FileRead(fs, e.path, req.action.config.max_size, ft)
            IN (~io.opened \/ io.failed)
                   => ~hash(fs, e, req.action.config, ft).some

\* ------------------------------------------------------------------ C28
\* The matches of the content conditions for the entry e, one list for
\* each condition, when the reads fail after ft bytes.
MatchesOf(e, ft) ==
    [i \in 1..Len(req.contents_match_conditions) |->
        check_condition(fs, req.contents_match_conditions[i], e, ft)]

\* C28: a turn of the loop only replies for an entry that meets every
\* condition on the metadata and for which every content condition has a
\* match; the response carries the matches of all the content conditions,
\* one after the other.
C28_RepliedOnlyWhenAllMatch ==
    [][replies' # replies =>
          LET e == Last(outputs)
          IN /\ check_conditions(fs, req.conditions, e)
             /\ \E ft \in Faults :
                   /\ \A i \in 1..Len(req.contents_match_conditions) :
                          /\ ~MatchesOf(e, ft)[i].panic
                          /\ MatchesOf(e, ft)[i].ok
                          /\ MatchesOf(e, ft)[i].matches # <<>>
                   /\ \A k \in (Len(replies) + 1)..Len(replies') :
                          replies'[k].matches
                              = Concat([i \in 1..Len(req.contents_match_conditions)
                                           |-> MatchesOf(e, ft)[i].matches])]_vars

\* A response carries the matches of two content conditions.
C28_Witness ==
    /\ Len(req.contents_match_conditions) = 2
    /\ replies # <<>>
    /\ Len(emitted) = 1
    /\ Len(MatchesOf(emitted[1], NoFault)[1].matches) >= 2
    /\ replies[1].matches
          = MatchesOf(emitted[1], NoFault)[1].matches
            \o MatchesOf(emitted[1], NoFault)[2].matches

\* ------------------------------------------------------------------ C29
\* The items of the chunks the content condition c reads of the entry e.
ItemsOf(e, c, ft) ==
    LET io == ReadFrom(fs, e.path, c.start_offset, c.length, ft)
    IN chunks(io.bytes, ChunksConfig(BYTES_PER_CHUNK, OVERLAP_BYTES),
              io.failed)

\* The search of c over the entry e comes to a read that fails: the file
\* is opened, the last item is the error, and the search does not end in
\* a chunk before it (with a first hit, or with a panic).
ReadErrorOccurs(e, c, ft) ==
    LET items == ItemsOf(e, c, ft)
    IN /\ Metadata(fs, e.path).kind # "noent"
       /\ items # <<>>
       /\ ~Last(items).ok
       /\ \A k \in 1..(Len(items) - 1) :
              LET found == ChunkMatches(items[k].value, 1, c, 0)
              IN /\ \A i \in 1..Len(found) : ~found[i].panic
                 /\ c.mode = "FirstHit" => found = <<>>

\* The value the metadata condition c needs of the entry e is not to be
\* had.
Unobtainable(e, c) ==
    \/ /\ c.kind \in {"MinModificationTime", "MaxModificationTime",
                      "MinAccessTime", "MaxAccessTime",
                      "MinInodeChangeTime", "MaxInodeChangeTime"}
       /\ TimeOf(fs, e.metadata, c.kind) < 0
    \/ /\ c.kind \in {"ExtFlagsLinuxBitsSet", "ExtFlagsLinuxBitsUnset"}
       /\ ~flags(fs, e.path).ok

\* C29: a condition on a time or on the extended flags is met when the
\* value cannot be obtained; a content condition is not met, and has no
\* matches, when the file cannot be opened or a read of it fails, also
\* after matches were found in the chunks before.
C29_FailOpenFailClosed ==
    req # NoRequest =>
        \A e \in Entries :
            /\ \A i \in 1..Len(req.conditions) :
                   Unobtainable(e, req.conditions[i]) =>
                       check_condition(fs, req.conditions[i], e, NoFault)
                           = ConditionResult(TRUE, <<>>)
            /\ \A i \in 1..Len(req.contents_match_conditions) :
                   \A ft \in Faults :
                       LET c == req.contents_match_conditions[i]
                       IN (Metadata(fs, e.path).kind = "noent"
                           \/ ReadErrorOccurs(e, c, ft))
                              => check_condition(fs, c, e, ft)
                                     = ConditionResult(FALSE, <<>>)

\* A time that cannot be obtained let the entry through.
C29_Witness ==
    /\ Len(req.conditions) = 1
    /\ req.conditions[1].kind = "MinModificationTime"
    /\ Len(emitted) = 1
    /\ Unobtainable(emitted[1], req.conditions[1])
    /\ replies # <<>>

\* A read failed after the first chunk had given matches.
C29_WitnessContent ==
    /\ Len(req.contents_match_conditions) = 1
    /\ Len(emitted) = 1
    /\ handled = "ok"
    /\ replies = <<>>
    /\ LET c == req.contents_match_conditions[1]
           items == ItemsOf(emitted[1], c, BYTES_PER_CHUNK)
       IN /\ ReadErrorOccurs(emitted[1], c, BYTES_PER_CHUNK)
          /\ Len(items) = 2
          /\ ChunkMatches(items[1].value, 1, c, 0) # <<>>

\* ------------------------------------------------------------------ C30
\* The bytes the content condition c searches in the file of the entry e.
Window(e, c) ==
    ReadFrom(fs, e.path, c.start_offset, c.length, NoFault).bytes

\* The match reference m is the one of the hit at position pos of the
\* window (counted from 0).
Reports(m, c, pos) ==
    /\ ~m.panic
    /\ m.offset + c.bytes_before = pos
    /\ Len(m.data) >= c.bytes_before + Len(c.regex)
    /\ SubSeq(m.data, c.bytes_before + 1, c.bytes_before + Len(c.regex))
          = c.regex

\* C30: in AllHits mode every occurrence of the pattern in the window
\* that is not longer than the overlap is reported by a match reference,
\* the occurrences across the end of a chunk too.
C30_EveryOccurrenceReported ==
    req # NoRequest =>
        \A e \in FileEntries :
            \A i \in 1..Len(req.contents_match_conditions) :
                LET c == req.contents_match_conditions[i]
                    r == check_condition(fs, c, e, NoFault)
                IN (c.mode = "AllHits" /\ Len(c.regex) <= OVERLAP_BYTES) =>
                       \A pos \in {h - 1 : h \in Hits(Window(e, c), c.regex)} :
                           \E k \in 1..Len(r.matches) :
                               Reports(r.matches[k], c, pos)

\* ------------------------------------------------------------------ C31
\* The chunks the content search of the condition c reads of the file.
ScanItems(c) == ItemsOf(ScanEntry, c, NoFault)

\* The references of the hits of chunk number k (from 0), with the offset
\* k * (BYTES_PER_CHUNK - OVERLAP_BYTES) of the chunk in the window.
FoundIn(c, k) ==
    ChunkMatches(ScanItems(c)[k + 1].value, 1, c,
                 k * (BYTES_PER_CHUNK - OVERLAP_BYTES))

\* All of them, chunk after chunk.
AllFound(c) ==
    Concat([k \in 1..Len(ScanItems(c)) |-> FoundIn(c, k - 1)])

\* C31: the offset of a match reference found in chunk number i is
\* i * (chunk size - overlap) plus the start of its data in the chunk,
\* and is the position of the first byte of the data in the window read.
C31_OffsetInWindow ==
    (handled = "ok" /\ ~result.panic) =>
        /\ req.mode = "AllHits" => result.matches = AllFound(req)
        /\ req.mode = "FirstHit" =>
               result.matches = Take(AllFound(req), 1)
        /\ \A j \in 1..Len(result.matches) :
               LET m == result.matches[j]
               IN /\ m.length = Len(m.data)
                  /\ m.offset + m.length <= Len(Window(ScanEntry, req))
                  /\ m.data = SubSeq(Window(ScanEntry, req), m.offset + 1,
                                     m.offset + m.length)

\* A match was found in the third chunk, with context before it.
C31_Witness ==
    /\ handled = "ok"
    /\ ~result.panic
    /\ req.bytes_before = 1
    /\ Len(ScanItems(req)) = 3
    /\ FoundIn(req, 2) # <<>>
    /\ Last(result.matches) = Last(FoundIn(req, 2))
    /\ Last(result.matches).offset
          > 2 * (BYTES_PER_CHUNK - OVERLAP_BYTES)

\* ------------------------------------------------------------------ C32
\* The data range [max(0, start - bytes_before),
\* min(chunk_len, end + bytes_after)) of the hit at position i of a chunk.
ClampedRange(chunk, i, c) ==
    [start |-> IF (i - 1) - c.bytes_before < 0 THEN 0
               ELSE (i - 1) - c.bytes_before,
     end |-> Min((i - 1) + Len(c.regex) + c.bytes_after, Len(chunk))]

\* C32: every hit is recorded with the context clamped to the chunk, for
\* all values of bytes_before and bytes_after, and no evaluation panics.
C32_ContextClamped ==
    handled = "ok" =>
        /\ ~result.panic
        /\ \A k \in 1..Len(ScanItems(req)) :
               LET chunk == ScanItems(req)[k].value
               IN \A i \in Hits(chunk, req.regex) :
                      LET range == ClampedRange(chunk, i, req)
                          m == BufferReference(chunk, i, req, 0)
                      IN /\ ~m.panic
                         /\ m.offset = range.start
                         /\ m.length = range.end - range.start
                         /\ m.data = SubSeq(chunk, range.start + 1, range.end)

\* ------------------------------------------------------------------ C38
\* C38: in AllHits mode no two match references of a content condition
\* have the same offset and the same data, also for the occurrences in
\* the bytes two chunks share.
C38_ReportedOnce ==
    (handled = "ok" /\ ~result.panic /\ req.mode = "AllHits") =>
        \A j, k \in 1..Len(result.matches) :
            (result.matches[j].offset = result.matches[k].offset
             /\ result.matches[j].data = result.matches[k].data) => j = k

\* ------------------------------------------------------------------ C33
\* C33: with flags that can be read, ExtFlagsLinuxBitsSet with the mask M
\* is met exactly when every bit of M is set in the flags of the file, and
\* ExtFlagsLinuxBitsUnset exactly when no bit of M is set in them.
C33_FlagBits ==
    req # NoRequest =>
        \A e \in Entries : \A i \in 1..Len(req.conditions) :
            LET c == req.conditions[i]
                fl == flags(fs, e.path)
                met == check_condition(fs, c, e, NoFault).ok
            IN fl.ok =>
                 /\ c.kind = "ExtFlagsLinuxBitsSet" =>
                        (met <=> c.expected \subseteq fl.value)
                 /\ c.kind = "ExtFlagsLinuxBitsUnset" =>
                        (met <=> c.expected \cap fl.value = {})

DescribedChunks ==
    Concat([i \in 1..Len(replies) |->
              IF replies[i].transferred_file.some
              THEN [k \in 1..Len(replies[i].transferred_file.v.chunk_ids) |->
                      replies[i].transferred_file.v.chunk_ids[k].sha256]
              ELSE <<>>])

\* C36: when the request has ended, every chunk in the transfer store is
\* referred to by the descriptor of a Download response, also when a
\* later read of the same entry failed.
C36_EveryChunkDescribed ==
    (req # NoRequest /\ handled = "ok") => DescribedChunks = sent

\* ------------------------------------------------------------------ C37
\* C37: when the resolution of a query is complete, no two of the entries
\* emitted have the same path.
C37_DistinctPaths ==
    Done =>
        \A i, j \in 1..Len(emitted) :
            emitted[i].path = emitted[j].path => i = j

\* ------------------------------------------------------------------ C39
\* The task is folded: no two adjacent components are Constant, and the
\* current component is a Constant only in a task that is all constant,
\* with an empty path_prefix and no remaining components.
Folded(t) ==
    /\ \A i \in 1..(Len(TaskComponents(t)) - 1) :
           ~(TaskComponents(t)[i].kind = "Constant"
             /\ TaskComponents(t)[i + 1].kind = "Constant")
    /\ t.current_component.kind = "Constant" =>
           t.path_prefix = EmptyPath /\ t.remaining_components = <<>>

\* The components of the sequence that are not Constant, in order.
NonConstants(comps) ==
    SelectSeq(comps, LAMBDA c : c.kind # "Constant")

\* Every task this step pushes is rooted at or below the path_prefix of
\* the task popped, and its components other than Constant are the
\* remaining ones of the task popped, after a recursive scan that goes on
\* with one level less: nothing of the path found is a pattern.
PushedAsConstant ==
    (tasks # <<>> /\ tasks' # tasks) =>
        LET task == Last(tasks)
            rest == NonConstants(task.remaining_components)
        IN \A i \in Len(tasks)..Len(tasks') :
               /\ IsPrefixOf(task.path_prefix, TaskRoot(tasks'[i]))
               /\ \/ NonConstants(TaskComponents(tasks'[i])) = rest
                  \/ /\ task.current_component.kind = "RecursiveScan"
                     /\ NonConstants(TaskComponents(tasks'[i]))
                           = <<RecursiveScan(
                                   task.current_component.max_depth - 1)>>
                             \o rest

\* C39: every task built by build_task or pushed by a step of the
\* resolution is folded, and a child found on the filesystem is added as
\* a Constant whatever characters its name holds.
C39_TasksFolded ==
    /\ []((built.ok => Folded(built.value))
          /\ \A i \in 1..Len(tasks) : Folded(tasks[i]))
    /\ [][PushedAsConstant]_vars

\* The directories named `b*` and `**` were found by a glob, their child
\* c was resolved as part of a constant path and emitted.
C39_Witness ==
    /\ Done
    /\ query = <<A, Star, C>>
    /\ AbsPath(<<A, BStar, C>>) \in EmittedPaths
    /\ AbsPath(<<A, SS, C>>) \in EmittedPaths
    /\ Len(emitted) = 3

\* ------------------------------------------------------------------ C34
\* The response is a Stat response for the path.
IsStatOf(r, path) ==
    /\ r.stat_entry.some
    /\ r.stat_entry.v.path = path
    /\ ~r.hash_entry.some
    /\ ~r.transferred_file.some

\* C34: the alternatives of a brace group are resolved as queries of their
\* own, in their order, and a query without a group as itself; the query
\* /a/{f,x} without conditions and action is answered by exactly the two
\* Stat responses for /a/f and /a/x.
C34_AlternativesResolved ==
    handled \in {"run", "ok"} =>
        /\ \A g \in Groups :
               req.path_queries = <<GroupString(g.pre, g.alts, g.post)>> =>
                   paths = [k \in 1..Len(g.alts) |->
                              AbsPath(components(g.pre \o g.alts[k] \o g.post))]
        /\ req.path_queries[1] \in PlainQueries =>
               paths = <<AbsPath(components(req.path_queries[1]))>>
        /\ (/\ handled = "ok"
            /\ req.action = NoAction
            /\ req.path_queries
                  = <<GroupString(Slashed(<<A>>) \o <<"/">>, <<F, X>>, <<>>)>>)
              => /\ Len(replies) = 2
                 /\ IsStatOf(replies[1], AbsPath(<<A, F>>))
                 /\ IsStatOf(replies[2], AbsPath(<<A, X>>))

\* The request for /a/{f,x} has ended with its two responses.
C34_Witness ==
    /\ handled = "ok"
    /\ req.action = NoAction
    /\ req.path_queries
          = <<GroupString(Slashed(<<A>>) \o <<"/">>, <<F, X>>, <<>>)>>
    /\ Len(paths) = 2
    /\ Len(replies) = 2

\* ------------------------------------------------------------------ C40
MaxComps == 4

\* Absolute and relative paths of names, `.` and `..`.
NormPaths ==
    {[abs |-> a, comps |-> c] :
        a \in BOOLEAN, c \in UNION {[1..n -> {A, Dot, DotDot}] : n \in 0..MaxComps}}

\* The path without its component number k, and without the components
\* number k - 1 and k.
Without(path, k) ==
    [abs |-> path.abs,
     comps |-> SubSeq(path.comps, 1, k - 1)
               \o SubSeq(path.comps, k + 1, Len(path.comps))]
WithoutPair(path, k) ==
    [abs |-> path.abs,
     comps |-> SubSeq(path.comps, 1, k - 2)
               \o SubSeq(path.comps, k + 1, Len(path.comps))]

Normalized(path) ==
    \A k \in 1..Len(path.comps) : path.comps[k] \notin {Dot, DotDot}

\* normalize on a path: the result of an absolute path has no `.` and no
\* `..`; a `.` is dropped; a `..` after a name removes the name, a `..`
\* at the root is dropped; normalizing twice is normalizing once; a
\* relative path is returned as it is.
NormalizeLaws(p) ==
    /\ normalize(normalize(p)) = normalize(p)
    /\ ~p.abs => normalize(p) = p
    /\ p.abs =>
          /\ normalize(p).abs
          /\ Normalized(normalize(p))
          /\ \A k \in 1..Len(p.comps) :
                 /\ p.comps[k] = Dot => normalize(p) = normalize(Without(p, k))
                 /\ (p.comps[k] = DotDot /\ k = 1) =>
                        normalize(p) = normalize(Without(p, k))
                 /\ (p.comps[k] = DotDot /\ k > 1
                     /\ p.comps[k - 1] \notin {Dot, DotDot}) =>
                        normalize(p) = normalize(WithoutPair(p, k))

\* The number of `..` in the path, in the components of a task and in
\* the query.
ParentDirs(comps) == Cardinality({k \in 1..Len(comps) : comps[k] = DotDot})
RECURSIVE ParentDirsOf(_)
ParentDirsOf(cs) ==
    IF cs = <<>> THEN 0
    ELSE (IF Head(cs).kind = "Constant" THEN ParentDirs(Head(cs).path.comps)
          ELSE 0) + ParentDirsOf(Tail(cs))
TaskParentDirs(t) ==
    ParentDirs(t.path_prefix.comps) + ParentDirsOf(TaskComponents(t))

\* C40: the entries in the output buffer and the entries emitted have
\* normalized paths; the tasks keep every `..` of the query, and the path
\* a step lists is the path_prefix of its task as it is; normalize obeys
\* its laws on every path.
C40_NormalizedAtEmission ==
    /\ [](/\ \A i \in 1..Len(emitted) :
                emitted[i].path.abs /\ Normalized(emitted[i].path)
          /\ \A i \in 1..Len(outputs) : Normalized(outputs[i].path)
          /\ \A i \in 1..Len(tasks) :
                TaskParentDirs(tasks[i]) = ParentDirs(query)
          /\ \A p \in NormPaths : NormalizeLaws(p))
    /\ [][listed' # listed =>
             /\ tasks # <<>>
             /\ listed' \ listed
                   = {[path |-> Last(tasks).path_prefix,
                       by |-> Last(tasks).current_component]}]_vars

\* A directory was listed through a path with `..`, and the entries found
\* in it were emitted with normalized paths.
C40_Witness ==
    /\ Done
    /\ query = <<A, Star, DotDot, B, Star>>
    /\ \E l \in listed : l.path = AbsPath(<<A, BStar, DotDot, B>>)
    /\ \A i \in 1..Len(emitted) : emitted[i].path = AbsPath(<<A, B, C>>)
    /\ Len(emitted) = 3

====
